---- MODULE Spec2Model ----
(***************************************************************************)
(* A model of the Tesseract relayer: the dependency graph and the          *)
(* coordination engine (coordination/), the nonce manager and the          *)
(* transaction sender (tx/), the chain listener (chain/listener.rs) and    *)
(* the relations of the state manager (state/manager.rs).                  *)
(***************************************************************************)
EXTENDS Integers, Sequences, FiniteSets, TLC

(***************************************************************************)
(* Universes and bounds                                                    *)
(***************************************************************************)
\* Option::None for a bytes32 id (dependency_id, swap_group_id)
NoneId == 0
\* the transaction ids of a run
TxIds == {1, 2}
\* the swap group ids of a run
GroupIds == {1}
\* the chains with a provider (ChainManager::connected_chains)
Chains == {1, 2}
\* the largest local nonce a run allocates
MaxNonce == 2
\* the largest on-chain transaction count a node reports
MaxOnChain == 2
\* RelayerConfig::max_retries is drawn from 0..MaxRetries
MaxRetries == 2

Put(f, k, v) == [x \in (DOMAIN f) \cup {k} |-> IF x = k THEN v ELSE f[x]]
Drop(f, ks) == [x \in (DOMAIN f) \ ks |-> f[x]]
EmptyMap == [x \in {} |-> 0]
Max(a, b) == IF a > b THEN a ELSE b
\* std::cmp::min that returns its second argument
Min_takes_second(a, b) == b
Min(a, b) == IF a < b THEN a ELSE b

(***************************************************************************)
(* coordination/dependency.rs: DependencyGraph                             *)
(***************************************************************************)
TransactionState ==
  {"Buffered", "DependencyPending", "Ready", "Submitted", "Finalized", "Failed", "Expired"}

PendingTransaction(id, origin, target, dep, grp, st, created) ==
  [tx_id |-> id, origin_chain |-> origin, target_chain |-> target,
   dependency_id |-> dep, swap_group_id |-> grp, state |-> st, created_at |-> created]

\* DependencyGraph::new
NewGraph == [transactions |-> EmptyMap, dependents |-> EmptyMap, swap_groups |-> EmptyMap]

\* entry(k).or_insert_with(HashSet::new).insert(v)
EntryInsert(index, k, v) ==
  Put(index, k, (IF k \in DOMAIN index THEN index[k] ELSE {}) \cup {v})

add_transaction(g, tx) ==
  [transactions |-> Put(g.transactions, tx.tx_id, tx),
   dependents |-> IF tx.dependency_id # NoneId
                  THEN EntryInsert(g.dependents, tx.dependency_id, tx.tx_id)
                  ELSE g.dependents,
   swap_groups |-> IF tx.swap_group_id # NoneId
                   THEN EntryInsert(g.swap_groups, tx.swap_group_id, tx.tx_id)
                   ELSE g.swap_groups]

\* if let Some(tx) = transactions.get_mut(tx_id) { tx.state = st }
SetState(g, id, st) ==
  IF id \in DOMAIN g.transactions
  THEN [g EXCEPT !.transactions[id].state = st]
  ELSE g

mark_ready(g, id) == SetState(g, id, "Ready")

mark_submitted(g, id) == SetState(g, id, "Submitted")

mark_failed(g, id) == SetState(g, id, "Failed")

\* notify_dependents without the test of the waiter's state
notify_dependents_any_state(g, resolved) ==
  IF resolved \in DOMAIN g.dependents
  THEN [g EXCEPT !.transactions =
          [t \in DOMAIN g.transactions |->
             IF t \in g.dependents[resolved]
             THEN [g.transactions[t] EXCEPT !.state = "Ready"]
             ELSE g.transactions[t]]]
  ELSE g

notify_dependents(g, resolved) ==
  IF resolved \in DOMAIN g.dependents
  THEN [g EXCEPT !.transactions =
          [t \in DOMAIN g.transactions |->
             IF t \in g.dependents[resolved]
                /\ g.transactions[t].state = "DependencyPending"
             THEN [g.transactions[t] EXCEPT !.state = "Ready"]
             ELSE g.transactions[t]]]
  ELSE g

mark_finalized(g, id) == notify_dependents(SetState(g, id, "Finalized"), id)

get_ready_for_chain(g, chain) ==
  {g.transactions[t] : t \in {u \in DOMAIN g.transactions :
       g.transactions[u].target_chain = chain /\ g.transactions[u].state = "Ready"}}

get_swap_group(g, grp) ==
  IF grp \in DOMAIN g.swap_groups
  THEN {g.transactions[t] : t \in g.swap_groups[grp] \cap DOMAIN g.transactions}
  ELSE {}

is_swap_group_ready(g, grp) ==
  /\ get_swap_group(g, grp) # {}
  /\ \A tx \in get_swap_group(g, grp) : tx.state = "Ready"

Terminal == {"Finalized", "Failed", "Expired"}

\* `now - tx.created_at > max_age_secs` in u64: with created_at > now the difference
\* wraps (a release build) to more than any max_age_secs of the model
AgeExceeds(now, created_at, max_age_secs) ==
  IF created_at > now THEN TRUE ELSE now - created_at > max_age_secs

\* the subtraction is evaluated for the transactions that are in no terminal state
CleanupOverflows(g, now) ==
  \E t \in DOMAIN g.transactions :
    g.transactions[t].state \notin Terminal /\ g.transactions[t].created_at > now

cleanup(g, max_age_secs, now) ==
  [g EXCEPT !.transactions =
     Drop(@, {t \in DOMAIN @ :
                @[t].state \in Terminal \/ AgeExceeds(now, @[t].created_at, max_age_secs)})]

get_pending(g) ==
  {g.transactions[t] : t \in {u \in DOMAIN g.transactions :
       g.transactions[u].state \in {"Buffered", "DependencyPending", "Ready", "Submitted"}}}

(***************************************************************************)
(* error.rs: RelayerError                                                  *)
(***************************************************************************)
Ok(v) == [ok |-> TRUE, val |-> v, err |-> "none"]
Err(kind) == [ok |-> FALSE, val |-> NoneId, err |-> kind]

is_retryable(kind) ==
  kind \in {"ChainConnection", "Timeout", "RateLimited", "FinalityNotReached"}

(***************************************************************************)
(* tx/nonce.rs: NonceManager.  The manager is a map chain -> state; a      *)
(* chain whose init_chain failed has no entry.  An RPC answer of -1 stands *)
(* for a failed get_transaction_count.                                     *)
(***************************************************************************)
RpcFailed == -1

\* u64::saturating_sub(1)
SaturatingPred(n) == IF n = 0 THEN 0 ELSE n - 1

ChainNonceState(cur, pend, conf) == [current |-> cur, pending |-> pend, confirmed |-> conf]

\* NonceManager::new
NewNonceManager == EmptyMap

init_chain(nm, chain, on_chain) ==
  IF on_chain = RpcFailed
  THEN [nm |-> nm, res |-> Err("Nonce")]
  ELSE [nm |-> Put(nm, chain, ChainNonceState(on_chain, EmptyMap, SaturatingPred(on_chain))),
        res |-> Ok(NoneId)]

get_nonce(nm, chain) ==
  IF chain \notin DOMAIN nm
  THEN [nm |-> nm, res |-> Err("Nonce")]
  ELSE [nm |-> [nm EXCEPT ![chain].current = @ + 1], res |-> Ok(nm[chain].current)]

mark_pending(nm, chain, nonce, tx_hash) ==
  IF chain \notin DOMAIN nm
  THEN [nm |-> nm, res |-> Err("Nonce")]
  ELSE [nm |-> [nm EXCEPT ![chain].pending = Put(@, nonce, tx_hash)], res |-> Ok(NoneId)]

confirm_nonce(nm, chain, nonce) ==
  IF chain \notin DOMAIN nm
  THEN [nm |-> nm, res |-> Err("Nonce")]
  ELSE [nm |-> [nm EXCEPT ![chain].pending = Drop(@, {nonce}),
                          ![chain].confirmed = IF nonce > @ THEN nonce ELSE @],
        res |-> Ok(NoneId)]

\* release_nonce without the test for the top: every release rewinds `current`
release_nonce_unconditional(nm, chain, nonce, overflow_checks) ==
  IF chain \notin DOMAIN nm
  THEN [nm |-> nm, res |-> Err("Nonce")]
  ELSE [nm |-> [nm EXCEPT ![chain].pending = Drop(@, {nonce}),
                          ![chain].current = nonce],
        res |-> Ok(NoneId)]

\* `nonce == state.current - 1` in u64 with current = 0: with overflow checks (a
\* debug build) the subtraction panics after pending.remove; without them it wraps
\* to 2^64 - 1, which no nonce of the model equals.
release_nonce(nm, chain, nonce, overflow_checks) ==
  IF chain \notin DOMAIN nm
  THEN [nm |-> nm, res |-> Err("Nonce")]
  ELSE IF overflow_checks /\ nm[chain].current = 0
  THEN [nm |-> [nm EXCEPT ![chain].pending = Drop(@, {nonce})], res |-> Err("panic")]
  ELSE [nm |-> [nm EXCEPT ![chain].pending = Drop(@, {nonce}),
                          ![chain].current =
                             IF @ > 0 /\ nonce = @ - 1 THEN nonce ELSE @],
        res |-> Ok(NoneId)]

\* fetch_nonce runs first: its failure returns before the chain lookup
sync(nm, chain, on_chain) ==
  IF on_chain = RpcFailed \/ chain \notin DOMAIN nm
  THEN [nm |-> nm, res |-> Err("Nonce")]
  ELSE [nm |-> [nm EXCEPT
                  ![chain].pending = Drop(@, {k \in DOMAIN @ : k < on_chain}),
                  ![chain].confirmed = SaturatingPred(on_chain),
                  ![chain].current = IF @ < on_chain THEN on_chain ELSE @],
        res |-> Ok(NoneId)]

(***************************************************************************)
(* chain/provider.rs: GasPrice                                             *)
(***************************************************************************)
\* Fees are counted in units of 10^8 wei, which keeps every amount of the model
\* within TLC's integers: 10^9 wei is 10 units
Gwei == 10
\* U256::from(2_000_000_000u64): 2 gwei
DefaultPriorityFee == 20

GasPriceStrategy == {"Legacy", "Eip1559", "Arbitrum", "Optimism"}

\* chain::GasPrice
Legacy(price) ==
  [kind |-> "Legacy", price |-> price, max_fee_per_gas |-> 0, max_priority_fee_per_gas |-> 0]
Eip1559(max_fee_per_gas, max_priority_fee_per_gas) ==
  [kind |-> "Eip1559", price |-> 0, max_fee_per_gas |-> max_fee_per_gas,
   max_priority_fee_per_gas |-> max_priority_fee_per_gas]
NoGasPrice == [kind |-> "none", price |-> 0, max_fee_per_gas |-> 0, max_priority_fee_per_gas |-> 0]

(***************************************************************************)
(* tx/gas.rs: GasEstimator                                                 *)
(***************************************************************************)
gas_limit_buffer_percent == 20
gas_price_buffer_percent == 10

estimate_resolve_gas == 100000 + (100000 * gas_limit_buffer_percent) \div 100

\* GasEstimator::get_gas_price.  gas_price is what provider.get_gas_price() returned
\* (provider_get_gas_price below): an error is passed up by `?`, and every component
\* of a price gets the buffer of gas_price_buffer_percent
get_gas_price(gas_price) ==
  LET price == gas_price.val
      buffered(v) == v + (v * gas_price_buffer_percent) \div 100
  IN IF ~gas_price.ok
     THEN gas_price
     ELSE [ok |-> TRUE, err |-> "none",
           val |-> IF price.kind = "Legacy"
                   THEN Legacy(buffered(price.price))
                   ELSE Eip1559(buffered(price.max_fee_per_gas),
                                buffered(price.max_priority_fee_per_gas))]

\* GasEstimator::speed_up_gas_price: every component times factor / 100
speed_up_gas_price(current, factor) ==
  IF current.kind = "Legacy"
  THEN Legacy((current.price * factor) \div 100)
  ELSE Eip1559((current.max_fee_per_gas * factor) \div 100,
               (current.max_priority_fee_per_gas * factor) \div 100)

(***************************************************************************)
(* tx/sender.rs: TransactionSender                                         *)
(***************************************************************************)
\* what the node (or the wallet) answers to one attempt of send_with_retry
AttemptResults ==
  {"ok", "sign_err", "nonce_too_low", "underpriced", "insufficient", "node_err", "timeout"}

\* the contract address of a chain's provider
ContractAddress(chain) == <<"contract", chain>>

\* selector(resolve_dependency(bytes32)) || tx_id, nonce, gas limit, gas price
build_resolve_tx(chain, tx_id, nonce, gas_limit, gas_price) ==
  [to |-> ContractAddress(chain), data |-> <<"0x12345678", tx_id>>,
   nonce |-> nonce, gas |-> gas_limit, gas_price |-> gas_price]

\* the hash of the transaction signed for `chain`: one hash per signed content
TxHash(chain, tx) == [chain_id |-> chain, signed |-> tx]

\* format!("{:?}", tx_hash): the full hex string of the hash
FormatHash(h) == <<"0x", h>>

\* The loop of send_with_retry from `attempts` made so far.  env.attempts[i]
\* is the outcome of attempt i, env.on_chain the answer to sync's fetch.
RECURSIVE SendLoop(_, _, _, _, _, _, _, _)
SendLoop(nm, chain, tx, nonce, attempts, max_attempts, last_error, env) ==
  IF attempts < max_attempts
  THEN LET a == attempts + 1
           r == env.attempts[a]
       IN CASE r = "sign_err" ->
                 SendLoop(nm, chain, tx, nonce, a, max_attempts, "Wallet", env)
            [] r = "ok" ->
                 [nm |-> nm, res |-> Ok(TxHash(chain, tx)), sends |-> a, cause |-> "ok"]
            [] r = "nonce_too_low" ->
                 [nm |-> sync(nm, chain, env.on_chain).nm, res |-> Err("Nonce"), sends |-> a,
                  cause |-> "nonce_too_low"]
            [] r = "insufficient" ->
                 [nm |-> nm, res |-> Err("InsufficientBalance"), sends |-> a,
                  cause |-> "insufficient"]
            [] r = "timeout" ->
                 SendLoop(nm, chain, tx, nonce, a, max_attempts, "Timeout", env)
            [] OTHER ->
                 SendLoop(nm, chain, tx, nonce, a, max_attempts, "Transaction", env)
  ELSE LET rel == release_nonce(nm, chain, nonce, env.overflow_checks)
       IN [nm |-> rel.nm,
           res |-> IF rel.res.ok THEN Err(last_error) ELSE rel.res,
           sends |-> attempts,
           cause |-> IF rel.res.err = "panic" THEN "panicked" ELSE "exhausted"]

\* last_error starts as None: unwrap_or(Transaction("Unknown error"))
send_with_retry(nm, chain, tx, nonce, max_attempts, env) ==
  SendLoop(nm, chain, tx, nonce, 0, max_attempts, "Transaction", env)

\* to, data, nonce and gas are copied from the original, the price is replaced
rebuild_tx_with_gas(tx, gas_price) == [tx EXCEPT !.gas_price = gas_price]

\* A task inside submit_resolve or speed_up: the function it runs (op), the await
\* it stands at (pc) and its locals.  attempts and last_error are the locals of
\* send_with_retry, answer is the outcome of its latest attempt and sent the
\* transaction that attempt signed; res and cause are set when the call returns.
\* calls counts the calls the task has made.
NoTx == build_resolve_tx(NoneId, NoneId, NoneId, 0, NoGasPrice)
IdleSubmitter ==
  [op |-> "none", pc |-> "idle", tx_id |-> NoneId, chain |-> NoneId, nonce |-> NoneId,
   original_tx |-> NoTx, tx |-> NoTx, sent |-> NoTx, hash |-> << >>, attempts |-> 0,
   last_error |-> "none", answer |-> "none", res |-> Err("none"), cause |-> "none",
   calls |-> 0]

\* the call returns res
SenderReturn(me, res, cause) == [me EXCEPT !.pc = "return", !.res = res, !.cause = cause]

\* send_with_retry is entered: `while attempts < max_attempts` with attempts = 0
send_with_retry_enter(me, tx, max_attempts) ==
  [me EXCEPT !.tx = tx, !.attempts = 0, !.last_error = "Transaction",
             !.pc = IF 0 < max_attempts THEN "send_raw_transaction" ELSE "release_nonce"]

\* submit_resolve from the answer to get_gas_price (gas_price is what
\* provider.get_gas_price() returned): `?` returns the error with the nonce still
\* allocated, otherwise the transaction is built and send_with_retry entered
submit_resolve_gas_price(me, max_attempts, gas_price) ==
  LET price == get_gas_price(gas_price)
      tx == build_resolve_tx(me.chain, me.tx_id, me.nonce, estimate_resolve_gas, price.val)
  IN IF ~price.ok
     THEN SenderReturn(me, Err(price.err), "get_gas_price")
     ELSE send_with_retry_enter(me, tx, max_attempts)

\* speed_up from the answer to get_gas_price: the price the node reports now is
\* raised by 25%, the original transaction rebuilt with it and sent through
\* send_with_retry with the nonce the caller passed
speed_up(me, max_attempts, gas_price) ==
  LET current_gas == get_gas_price(gas_price)
      new_gas == speed_up_gas_price(current_gas.val, 125)
      new_tx == rebuild_tx_with_gas(me.original_tx, new_gas)
  IN IF ~current_gas.ok
     THEN SenderReturn(me, Err(current_gas.err), "get_gas_price")
     ELSE send_with_retry_enter(me, new_tx, max_attempts)

\* One iteration of the loop of send_with_retry, from the answer to its attempt
\* (the wallet's signature, then the node's answer to send_raw_transaction within
\* the timeout).  An accepted transaction ends send_with_retry with its hash:
\* submit_resolve goes on to mark_pending, speed_up returns the hash.  After "nonce
\* too low" sync is awaited.  Every other error but "insufficient funds" is kept in
\* last_error and the loop goes on: to the next attempt, or to release_nonce when
\* the attempts are used up.
send_with_retry_attempt(me, max_attempts, answer) ==
  LET a == me.attempts + 1
      tried == [me EXCEPT !.attempts = a, !.answer = answer,
                          !.sent = IF answer = "sign_err" THEN @ ELSE me.tx]
      again(e) == [tried EXCEPT !.last_error = e,
                                !.pc = IF a < max_attempts THEN "send_raw_transaction"
                                                           ELSE "release_nonce"]
      accepted == [tried EXCEPT !.hash = TxHash(me.chain, me.tx)]
  IN CASE answer = "sign_err" -> again("Wallet")
       [] answer = "ok" ->
            IF me.op = "submit_resolve"
            THEN [accepted EXCEPT !.pc = "mark_pending"]
            ELSE SenderReturn(accepted, Ok(TxHash(me.chain, me.tx)), "ok")
       [] answer = "nonce_too_low" -> [tried EXCEPT !.pc = "sync"]
       [] answer = "insufficient" ->
            SenderReturn(tried, Err("InsufficientBalance"), "insufficient")
       [] answer = "timeout" -> again("Timeout")
       [] OTHER -> again("Transaction")

\* `self.nonce_manager.sync(chain_id, &provider).await?` after "nonce too low", and
\* the return of the Nonce error (the error of a failed sync is a Nonce error too)
send_with_retry_sync(nm, me, on_chain) ==
  [nm |-> sync(nm, me.chain, on_chain).nm,
   me |-> SenderReturn(me, Err("Nonce"), "nonce_too_low")]

\* `self.nonce_manager.release_nonce(chain_id, nonce).await?` when the attempts are
\* used up, and the return of last_error; a release_nonce that panics ends the task
send_with_retry_release(nm, me, overflow_checks) ==
  LET rel == release_nonce(nm, me.chain, me.nonce, overflow_checks)
  IN [nm |-> rel.nm,
      me |-> IF rel.res.err = "panic"
             THEN [me EXCEPT !.pc = "panicked", !.res = rel.res, !.cause = "panicked"]
             ELSE SenderReturn(me, IF rel.res.ok THEN Err(me.last_error) ELSE rel.res,
                               "exhausted")]

\* `self.nonce_manager.mark_pending(chain_id, nonce, hash).await?` of submit_resolve
submit_resolve_mark_pending(nm, me) ==
  LET marked == mark_pending(nm, me.chain, me.nonce, FormatHash(me.hash))
  IN [nm |-> marked.nm,
      me |-> IF marked.res.ok THEN [me EXCEPT !.pc = "record_submission"]
             ELSE SenderReturn(me, marked.res, "mark_pending")]


\* StateManager::record_submission: a plain INSERT of one row
record_submission(rows, tx_id, chain, hash_str) ==
  Append(rows, [tx_id |-> tx_id, chain_id |-> chain,
                ethereum_tx_hash |-> hash_str, status |-> "pending",
                confirmed_at |-> NoneId])

\* StateManager::update_submission_status: UPDATE .. SET status, confirmed_at WHERE
\* ethereum_tx_hash = hash; confirmed_at is Utc::now() for 'confirmed', else NULL
update_submission_status(rows, hash_str, status, now) ==
  [i \in 1..Len(rows) |->
     IF rows[i].ethereum_tx_hash = hash_str
     THEN [rows[i] EXCEPT !.status = status,
                          !.confirmed_at = IF status = "confirmed" THEN now ELSE NoneId]
     ELSE rows[i]]

\* `self.state_manager.record_submission(..).await?` and the return of the hash
submit_resolve_record(rows, me, db_ok) ==
  IF db_ok
  THEN [rows |-> record_submission(rows, me.tx_id, me.chain, FormatHash(me.hash)),
        me |-> SenderReturn(me, Ok(me.hash), "ok")]
  ELSE [rows |-> rows, me |-> SenderReturn(me, Err("Database"), "record_submission")]

\* submit_resolve run by a caller that nothing runs beside (the engine), as one
\* function.  s = [nonce_manager, tx_submissions]; env scripts the node and the database:
\* gas_price, attempts, on_chain, db_ok.  `cause` names the step that decided the
\* result and `nonce` the nonce allocated (what the function logs).
submit_resolve(s, pending_tx, max_attempts, env) ==
  LET chain == pending_tx.target_chain
      alloc == get_nonce(s.nonce_manager, chain)
      nonce == alloc.res.val
      price == get_gas_price(env.gas_price)
      tx == build_resolve_tx(chain, pending_tx.tx_id, nonce, estimate_resolve_gas, price.val)
      sent == send_with_retry(alloc.nm, chain, tx, nonce, max_attempts, env)
      marked == mark_pending(sent.nm, chain, nonce, FormatHash(sent.res.val))
  IN IF chain \notin Chains
     THEN [s |-> s, res |-> Err("ChainNotFound"), cause |-> "get_provider", nonce |-> NoneId]
     ELSE IF ~alloc.res.ok
     THEN [s |-> s, res |-> alloc.res, cause |-> "get_nonce", nonce |-> NoneId]
     ELSE IF ~price.ok
     THEN [s |-> [s EXCEPT !.nonce_manager = alloc.nm], res |-> Err(price.err),
           cause |-> "get_gas_price", nonce |-> nonce]
     ELSE IF ~sent.res.ok
     THEN [s |-> [s EXCEPT !.nonce_manager = sent.nm], res |-> sent.res,
           cause |-> sent.cause, nonce |-> nonce]
     ELSE IF ~env.db_ok
     THEN [s |-> [s EXCEPT !.nonce_manager = marked.nm], res |-> Err("Database"),
           cause |-> "record_submission", nonce |-> nonce]
     ELSE [s |-> [nonce_manager |-> marked.nm,
                  tx_submissions |-> record_submission(s.tx_submissions, pending_tx.tx_id,
                                                       chain, FormatHash(sent.res.val))],
           res |-> sent.res, cause |-> "ok", nonce |-> nonce]

(***************************************************************************)
(* state/manager.rs: the pending_transactions relation (tx_id PRIMARY KEY) *)
(***************************************************************************)
StateStr(st) ==
  CASE st = "Buffered" -> "buffered"
    [] st = "DependencyPending" -> "dependency_pending"
    [] st = "Ready" -> "ready"
    [] st = "Submitted" -> "submitted"
    [] st = "Finalized" -> "finalized"
    [] st = "Failed" -> "failed"
    [] OTHER -> "expired"

StateFromStr(str) ==
  CASE str = "buffered" -> "Buffered"
    [] str = "dependency_pending" -> "DependencyPending"
    [] str = "ready" -> "Ready"
    [] str = "submitted" -> "Submitted"
    [] OTHER -> "Buffered"

PendingRow(origin, target, dep, grp, str, created) ==
  [origin_chain |-> origin, target_chain |-> target, dependency_id |-> dep,
   swap_group_id |-> grp, state |-> str, created_at |-> created]

\* INSERT ... ON CONFLICT (tx_id) DO UPDATE SET state; created_at DEFAULT NOW()
store_pending_transaction(rows, tx, db_now) ==
  IF tx.tx_id \in DOMAIN rows
  THEN [rows EXCEPT ![tx.tx_id].state = StateStr(tx.state)]
  ELSE Put(rows, tx.tx_id,
           PendingRow(tx.origin_chain, tx.target_chain, tx.dependency_id,
                      tx.swap_group_id, StateStr(tx.state), db_now))

\* SELECT ... WHERE state NOT IN ('finalized', 'failed', 'expired')
get_pending_transactions(rows) ==
  {PendingTransaction(t, rows[t].origin_chain, rows[t].target_chain,
                      rows[t].dependency_id, rows[t].swap_group_id,
                      StateFromStr(rows[t].state), rows[t].created_at) :
     t \in {u \in DOMAIN rows : rows[u].state \notin {"finalized", "failed", "expired"}}}

(***************************************************************************)
(* coordination/engine.rs: CoordinationEngine                              *)
(***************************************************************************)
\* `for tx in pending { dependency_graph.add_transaction(tx) }`
RECURSIVE AddAll(_, _)
AddAll(g, txs) ==
  IF txs = {} THEN g
  ELSE LET tx == CHOOSE x \in txs : TRUE
       IN AddAll(add_transaction(g, tx), txs \ {tx})

\* `for chain_id in connected_chains { nonce_manager.init_chain(..) }`: a failure
\* is logged and the chain is left without nonce state
RECURSIVE InitChains(_, _, _)
InitChains(nm, chains, on_chain) ==
  IF chains = {} THEN nm
  ELSE LET c == CHOOSE x \in chains : TRUE
       IN InitChains(init_chain(nm, c, on_chain[c]).nm, chains \ {c}, on_chain)

\* resolve_target_chain: Ok(1) for every rollup address
resolve_target_chain == 1

ContractEvent(name, chain, id, dep, ts) ==
  [name |-> name, chain_id |-> chain, tx_id |-> id, dependency_id |-> dep, timestamp |-> ts]

\* st = [graph, rows]; the database write may fail after the graph was updated
handle_transaction_buffered(st, origin_chain, tx_id, timestamp, db_ok, db_now) ==
  LET pending_tx == PendingTransaction(tx_id, origin_chain, resolve_target_chain,
                                       NoneId, NoneId, "Buffered", timestamp)
      g == add_transaction(st.graph, pending_tx)
  IN IF db_ok
     THEN [graph |-> g, rows |-> store_pending_transaction(st.rows, pending_tx, db_now)]
     ELSE [graph |-> g, rows |-> st.rows]

handle_transaction_ready(st, tx_id) == [st EXCEPT !.graph = mark_ready(@, tx_id)]

handle_dependency_resolved(st, tx_id, dependency_id) ==
  [st EXCEPT !.graph = mark_ready(@, tx_id)]

handle_event(st, ev, db_ok, db_now) ==
  CASE ev.name = "TransactionBuffered" ->
         handle_transaction_buffered(st, ev.chain_id, ev.tx_id, ev.timestamp, db_ok, db_now)
    [] ev.name = "TransactionReady" -> handle_transaction_ready(st, ev.tx_id)
    [] ev.name = "DependencyResolved" ->
         handle_dependency_resolved(st, ev.tx_id, ev.dependency_id)
    [] ev.name = "TransactionExecuted" -> [st EXCEPT !.graph = mark_finalized(@, ev.tx_id)]
    [] ev.name = "TransactionFailed" -> [st EXCEPT !.graph = mark_failed(@, ev.tx_id)]
    [] OTHER -> st

(***************************************************************************)
(* state/manager.rs: chain_checkpoints and contract_events                 *)
(***************************************************************************)
\* SELECT block_number ...: the row's block, 0 when the chain has no row
get_checkpoint(ckpts, chain_id) == IF chain_id \in DOMAIN ckpts THEN ckpts[chain_id] ELSE 0

\* INSERT ... ON CONFLICT (chain_id) DO UPDATE SET block_number
save_checkpoint(ckpts, chain_id, block_number) == Put(ckpts, chain_id, block_number)

\* ContractEvent::name: one arm per variant, Unknown last
event_name(event) ==
  CASE event.name = "TransactionBuffered" -> "transaction_buffered"
    [] event.name = "DependencyResolved" -> "dependency_resolved"
    [] event.name = "TransactionReady" -> "transaction_ready"
    [] event.name = "TransactionExecuted" -> "transaction_executed"
    [] event.name = "TransactionFailed" -> "transaction_failed"
    [] event.name = "TransactionExpired" -> "transaction_expired"
    [] event.name = "TransactionRefunded" -> "transaction_refunded"
    [] event.name = "SwapGroupCreated" -> "swap_group_created"
    [] event.name = "SwapOrderCreated" -> "swap_order_created"
    [] event.name = "SwapFillCreated" -> "swap_fill_created"
    [] event.name = "SwapCompleted" -> "swap_completed"
    [] event.name = "ContractPaused" -> "contract_paused"
    [] event.name = "ContractUnpaused" -> "contract_unpaused"
    [] event.name = "CircuitBreakerTriggered" -> "circuit_breaker_triggered"
    [] event.name = "Unknown" -> "unknown"

\* block_number and tx_hash are kept for TransactionBuffered and TransactionReady only
store_event(rows, event) ==
  LET keeps == event.name \in {"TransactionBuffered", "TransactionReady"}
  IN Append(rows, [chain_id |-> event.chain_id,
                   block_number |-> IF keeps THEN event.block_number ELSE 0,
                   tx_hash |-> IF keeps THEN event.tx_hash ELSE << >>,
                   event_type |-> event_name(event),
                   event_data |-> event])

(***************************************************************************)
(* events/mod.rs: EventParser                                              *)
(***************************************************************************)
\* EventParser::new leaves chain_id at 0; the listener never calls with_chain_id
EventParserNew == [chain_id |-> 0]

\* a log of the contract: every log of a block comes from a transaction of its own
Log(block_number, log_index, topic, tx_id) ==
  [block_number |-> block_number, log_index |-> log_index, topic |-> topic,
   tx_id |-> tx_id, transaction_hash |-> <<"tx", block_number, log_index>>]

\* every log parses to ContractEvent::Unknown
parse_log(parser, log) ==
  [name |-> "Unknown", chain_id |-> parser.chain_id, topic |-> log.topic,
   block_number |-> log.block_number, tx_hash |-> log.transaction_hash]

(***************************************************************************)
(* chain/provider.rs: ChainProvider.  The endpoints are numbered from 0;   *)
(* `answers` gives what each endpoint answers when it is asked during one  *)
(* call: RpcFailed (or FALSE) when the request fails.                      *)
(***************************************************************************)
\* the largest number of HTTP endpoints of a chain
MaxEndpoints == 2
Endpoints == 0..(MaxEndpoints - 1)

\* ChainProvider::new: http_providers.len() = n, current_provider = 0
ChainProviderNew(n, initial_block) ==
  [n |-> n, current_provider |-> 0, last_block |-> initial_block]

\* the index of the endpoint http() returns
http(p) == p.current_provider % p.n

\* failover(): `let current = self.current_provider.load(Ordering::Relaxed)`
failover_load(p) == p.current_provider

\* failover(): `self.current_provider.store(next, Ordering::Relaxed)` with
\* next = (current + 1) % len, computed from the index loaded before; and a failover
\* that stores the index it loaded
failover_store_keeps_endpoint(p, current) == [p EXCEPT !.current_provider = current]

failover_store(p, current) == [p EXCEPT !.current_provider = (current + 1) % p.n]

\* A call of get_block_number or get_logs.  pc is where the call stands: "http"
\* before `self.http()` of an iteration, "await" with its request in flight to
\* `endpoint`, "failover_load" and "failover_store" before the load and the store of
\* failover(), "done" when it has returned res.  left counts the iterations of
\* `for _ in 0..self.http_providers.len()` that are left, current is the index
\* failover() loaded.  The loads and the store are relaxed atomics of their own: the
\* steps of other tasks may fall between any two of them.
ProviderCall(p) ==
  [pc |-> "http", left |-> p.n, endpoint |-> 0, current |-> 0, res |-> Err("none")]
NoProviderCall ==
  [pc |-> "none", left |-> 0, endpoint |-> 0, current |-> 0, res |-> Err("none")]

\* the steps get_block_number and get_logs share: `self.http()` and the request, the
\* load of failover(), and its store, after which the next iteration begins or, after
\* the last one, the call returns the error
provider_loop(p, call) ==
  CASE call.pc = "http" ->
         [p |-> p, call |-> [call EXCEPT !.pc = "await", !.endpoint = http(p)]]
    [] call.pc = "failover_load" ->
         [p |-> p, call |-> [call EXCEPT !.pc = "failover_store",
                                         !.current = failover_load(p)]]
    [] call.pc = "failover_store" ->
         [p |-> failover_store(p, call.current),
          call |-> IF call.left = 1
                   THEN [call EXCEPT !.pc = "done", !.left = 0,
                                     !.res = Err("ChainConnection")]
                   ELSE [call EXCEPT !.pc = "http", !.left = @ - 1]]

\* One step of ChainProvider::get_block_number.  `answer` is what the endpoint asked
\* reports, a block number or RpcFailed, and is read only by the step that follows
\* the request: a block number is written to last_block and returned, a failed
\* request leads to failover().
get_block_number(p, call, answer) ==
  IF call.pc # "await" THEN provider_loop(p, call)
  ELSE IF answer # RpcFailed
  THEN [p |-> [p EXCEPT !.last_block = answer],
        call |-> [call EXCEPT !.pc = "done", !.res = Ok(answer)]]
  ELSE [p |-> p, call |-> [call EXCEPT !.pc = "failover_load"]]

\* one step of ChainProvider::get_logs; `logs` is what an endpoint that answers
\* returns
get_logs(p, call, answered, logs) ==
  IF call.pc # "await" THEN provider_loop(p, call)
  ELSE IF answered
  THEN [p |-> p, call |-> [call EXCEPT !.pc = "done", !.res = Ok(logs)]]
  ELSE [p |-> p, call |-> [call EXCEPT !.pc = "failover_load"]]

\* a call is entered and sends its first request
provider_enter(p) == provider_loop(p, ProviderCall(p)).call

\* a request of the call has failed
FailedOver(p, call) == call.left < p.n

\* ChainProvider::get_transaction_receipt sends one request, to the endpoint that is
\* active when it is called; an answer is a failed request, Ok(None) or
\* Ok(Some(receipt))
NoBlock == -1
RpcFailedReceipt == [failed |-> TRUE, found |-> FALSE, status |-> 0, block_number |-> NoBlock]
NoReceipt == [failed |-> FALSE, found |-> FALSE, status |-> 0, block_number |-> NoBlock]
Receipt(status, block_number) ==
  [failed |-> FALSE, found |-> TRUE, status |-> status, block_number |-> block_number]

get_transaction_receipt(answer) ==
  IF answer.failed
  THEN [ok |-> FALSE, err |-> "ChainConnection", receipt |-> NoReceipt]
  ELSE [ok |-> TRUE, err |-> "none", receipt |-> answer]

\* the node's answer to get_block(Latest): a failed request, Ok(None), a block
\* without base_fee_per_gas, or a block with it
LatestBlock(failed, found, has_base_fee, base_fee) ==
  [failed |-> failed, found |-> found, has_base_fee |-> has_base_fee, base_fee |-> base_fee]

estimate_eip1559_fees(max_gas_price_gwei, block) ==
  LET base_fee == block.base_fee
      priority_fee == DefaultPriorityFee
      max_gwei == max_gas_price_gwei * Gwei
      max_fee == Min(base_fee * 2 + priority_fee, max_gwei)
  IN IF block.failed \/ ~block.found \/ ~block.has_base_fee
     THEN [ok |-> FALSE, err |-> "GasEstimation", val |-> NoGasPrice]
     ELSE [ok |-> TRUE, err |-> "none", val |-> Eip1559(max_fee, priority_fee)]

\* ChainProvider::get_gas_price; node_price is the answer to eth_gasPrice
\* (RpcFailed when the request fails), block the answer to get_block(Latest)
provider_get_gas_price(gas_price_strategy, max_gas_price_gwei, node_price, block) ==
  IF gas_price_strategy \in {"Eip1559", "Optimism"}
  THEN estimate_eip1559_fees(max_gas_price_gwei, block)
  ELSE IF node_price = RpcFailed
  THEN [ok |-> FALSE, err |-> "GasEstimation", val |-> NoGasPrice]
  ELSE [ok |-> TRUE, err |-> "none", val |-> Legacy(node_price)]

(***************************************************************************)
(* chain/finality.rs: FinalityTracker                                      *)
(***************************************************************************)
\* FinalityTracker::new.  pending_lock is the RwLock of `pending`, which is fair:
\* readers are the tasks that hold a read guard, queue the tasks that wait for the
\* lock in the order they asked.  A task that asks while another waits is queued
\* behind it; a write guard is never held across an await.
FinalityTrackerNew(chain_id, confirmation_blocks) ==
  [chain_id |-> chain_id, confirmation_blocks |-> confirmation_blocks,
   pending |-> EmptyMap, finalized |-> EmptyMap,
   pending_lock |-> [readers |-> {}, queue |-> << >>]]

\* task t asks for the lock and waits in its queue until the lock is granted to it,
\* gets a read guard, drops its read guard
Wait(ft, t) == [ft EXCEPT !.pending_lock.queue = Append(@, t)]
ReadGuard(ft, t) == [ft EXCEPT !.pending_lock.readers = @ \cup {t}]
DropGuard(ft, t) == [ft EXCEPT !.pending_lock.readers = @ \ {t}]

\* the insert of track, under the write guard
track(ft, tx_hash, block_number) ==
  [ft EXCEPT !.pending = Put(@, tx_hash, block_number)]

\* u64::saturating_sub
saturating_sub(a, b) == IF a >= b THEN a - b ELSE 0

\* RelayerResult<bool>, with the fields of ReorgDetected
FinalityOk(b) ==
  [ok |-> TRUE, val |-> b, err |-> "none", chain_id |-> NoneId, block_number |-> NoBlock]
FinalityErr(kind) ==
  [ok |-> FALSE, val |-> FALSE, err |-> kind, chain_id |-> NoneId, block_number |-> NoBlock]
ReorgDetected(chain_id, block_number) ==
  [ok |-> FALSE, val |-> FALSE, err |-> "ReorgDetected", chain_id |-> chain_id,
   block_number |-> block_number]

\* A call on the tracker by a task.  pc is the await the call is at:
\* "eth_blockNumber" is the call of get_block_number, which stands at rpc;
\* "eth_getTransactionReceipt" is a request in flight, sent to `endpoint`;
\* "pending_read" and "pending_write" wait for the lock of `pending`,
\* "finalized_write" for the lock of `finalized`; "returned" keeps the call as it
\* ended.  current_block, tx_block (the block `pending` held for tx_hash),
\* receipt, todo (the tracked hashes check_pending has still to verify), finalized
\* and i (the Vec of check_pending and the position of its second loop) are the
\* locals of the call; block_number and max_entries are arguments of track and
\* cleanup_cache; cached: the result came from the cache; answering: the endpoints
\* that would have answered the receipt request; before: the cache cleanup_cache
\* found.
IdleCall ==
  [op |-> "none", pc |-> "idle", tx_hash |-> NoneId, block_number |-> NoBlock,
   max_entries |-> 0, before |-> EmptyMap, endpoint |-> 0, rpc |-> NoProviderCall,
   current_block |-> NoBlock, tx_block |-> NoBlock, receipt |-> NoReceipt,
   answering |-> {}, todo |-> {}, finalized |-> << >>, i |-> 0, cached |-> FALSE,
   res |-> FinalityErr("none")]
NewCall(op, tx_hash) == [IdleCall EXCEPT !.op = op, !.tx_hash = tx_hash]
\* the call returns res: its locals are gone, and of its arguments and of what it
\* read the record keeps what is_finalized and cleanup_cache are asked about below
Returned(call, res) ==
  IF call.op \in {"is_finalized", "cleanup_cache"}
  THEN [call EXCEPT !.pc = "returned", !.res = res, !.endpoint = 0,
                    !.rpc = NoProviderCall]
  ELSE [IdleCall EXCEPT !.pc = "returned", !.op = call.op, !.res = res]

\* verify_inclusion from the answer to its request
verify_inclusion(answer) ==
  LET r == get_transaction_receipt(answer)
  IN IF ~r.ok THEN FinalityErr(r.err)
     ELSE FinalityOk(r.receipt.found /\ r.receipt.status = 1)

\* `self.pending.write().await`: the task waits in the queue of the lock
write_pending(ft, t, call) ==
  [ft |-> Wait(ft, t), call |-> [call EXCEPT !.pc = "pending_write"]]

\* The statement that holds the write guard of `pending`, run once
\* `self.pending.write().await` has returned.  track inserts and returns.
\* is_finalized removes the hash it finalized and returns true, or (untracked hash)
\* starts tracking, returns false and drops the read guard it held all along.
\* check_pending removes finalized[i] and goes on to `self.finalized.write().await`.
pending_write(ft, t, call) ==
  CASE call.op = "track" ->
         [ft |-> track(ft, call.tx_hash, call.block_number), call |-> Returned(call, call.res)]
    [] call.op = "is_finalized" /\ call.tx_block # NoBlock ->
         [ft |-> [ft EXCEPT !.pending = Drop(@, {call.tx_hash})],
          call |-> Returned(call, FinalityOk(TRUE))]
    [] call.op = "is_finalized" /\ call.tx_block = NoBlock ->
         [ft |-> DropGuard([ft EXCEPT !.pending = Put(@, call.tx_hash,
                                                       call.receipt.block_number)], t),
          call |-> Returned(call, FinalityOk(FALSE))]
    [] call.op = "check_pending" ->
         [ft |-> [ft EXCEPT !.pending = Drop(@, {call.finalized[call.i]})],
          call |-> [call EXCEPT !.pc = "finalized_write"]]

\* The statement that holds the write guard of `finalized`, which no task holds
\* across an await.  is_finalized caches true and, for a tracked hash, asks for the
\* write lock of `pending`; for an untracked hash it returns true and drops the read
\* guard it held all along.  check_pending caches finalized[i] and asks for the write
\* lock of `pending` again for the next hash, or returns after the last.
finalized_write(ft, t, call) ==
  CASE call.op = "is_finalized" /\ call.tx_block # NoBlock ->
         write_pending([ft EXCEPT !.finalized = Put(@, call.tx_hash, TRUE)], t, call)
    [] call.op = "is_finalized" /\ call.tx_block = NoBlock ->
         [ft |-> DropGuard([ft EXCEPT !.finalized = Put(@, call.tx_hash, TRUE)], t),
          call |-> Returned(call, FinalityOk(TRUE))]
    [] call.op = "check_pending" ->
         LET ft2 == [ft EXCEPT !.finalized = Put(@, call.finalized[call.i], TRUE)]
         IN IF call.i = Len(call.finalized)
            THEN [ft |-> ft2, call |-> Returned(call, FinalityOk(call.finalized))]
            ELSE write_pending(ft2, t, [call EXCEPT !.i = @ + 1])

\* FinalityTracker::is_finalized up to its first request: the cache, then the
\* request of get_block_number is sent to the active endpoint
is_finalized(ft, p, tx_hash) ==
  IF tx_hash \in DOMAIN ft.finalized
  THEN Returned([NewCall("is_finalized", tx_hash) EXCEPT !.cached = TRUE],
                FinalityOk(ft.finalized[tx_hash]))
  ELSE [NewCall("is_finalized", tx_hash) EXCEPT !.pc = "eth_blockNumber",
                                                !.rpc = provider_enter(p)]

\* is_finalized once `let pending = self.pending.read().await` has returned: the
\* read guard is held while the receipt is requested, for a tracked hash that is
\* confirmation_blocks deep (verify_inclusion) and for an untracked hash
is_finalized_pending_read(ft, p, t, call) ==
  IF call.tx_hash \in DOMAIN ft.pending
  THEN LET tx_block == ft.pending[call.tx_hash]
           confirmations == saturating_sub(call.current_block, tx_block)
       IN IF confirmations >= ft.confirmation_blocks
          THEN [ft |-> ReadGuard(ft, t),
                call |-> [call EXCEPT !.pc = "eth_getTransactionReceipt",
                                      !.tx_block = tx_block, !.endpoint = http(p)]]
          ELSE [ft |-> ft,
                call |-> Returned([call EXCEPT !.tx_block = tx_block], FinalityOk(FALSE))]
  ELSE [ft |-> ReadGuard(ft, t),
        call |-> [call EXCEPT !.pc = "eth_getTransactionReceipt", !.endpoint = http(p)]]

\* is_finalized from the answer to its receipt request.  A tracked hash: `drop(pending)`,
\* then `self.finalized.write().await`.  An untracked hash: `self.finalized.write().await`
\* when it is deep enough and `self.pending.write().await` when it is not, both while
\* `pending`, the read guard, is still held.
is_finalized_receipt(ft, t, call, answer) ==
  LET r == get_transaction_receipt(answer)
      c == [call EXCEPT !.receipt = answer]
      block_num == answer.block_number
  IN IF call.tx_block # NoBlock
     THEN LET included == verify_inclusion(answer)
          IN IF ~included.ok
             THEN [ft |-> DropGuard(ft, t), call |-> Returned(c, included)]
             ELSE IF included.val
             THEN [ft |-> DropGuard(ft, t), call |-> [c EXCEPT !.pc = "finalized_write"]]
             ELSE [ft |-> DropGuard(ft, t),
                   call |-> Returned(c, ReorgDetected(ft.chain_id, call.tx_block))]
     ELSE IF ~r.ok
     THEN [ft |-> DropGuard(ft, t), call |-> Returned(c, FinalityErr(r.err))]
     ELSE IF answer.found /\ block_num # NoBlock
     THEN IF saturating_sub(call.current_block, block_num) >= ft.confirmation_blocks
          THEN [ft |-> ft, call |-> [c EXCEPT !.pc = "finalized_write"]]
          ELSE write_pending(ft, t, c)
     ELSE [ft |-> DropGuard(ft, t), call |-> Returned(c, FinalityErr("TransactionNotFound"))]

\* FinalityTracker::check_pending up to its first request
check_pending(p) ==
  [NewCall("check_pending", NoneId) EXCEPT !.pc = "eth_blockNumber",
                                           !.rpc = provider_enter(p)]

\* check_pending once `self.pending.read().await.clone()` has returned: the guard is
\* dropped with the statement, and the clone is what the loop goes through
check_pending_pending_read(ft, p, call) ==
  LET deep == {h \in DOMAIN ft.pending :
                 saturating_sub(call.current_block, ft.pending[h]) >= ft.confirmation_blocks}
  IN IF deep = {}
     THEN [ft |-> ft, call |-> Returned(call, FinalityOk(<< >>))]
     ELSE [ft |-> ft, call |-> [call EXCEPT !.pc = "eth_getTransactionReceipt",
                                            !.todo = deep, !.endpoint = http(p)]]

\* check_pending from the answer to the receipt request for tx_hash, one of the
\* hashes it has still to verify (the HashMap's order decides which comes next): an
\* error ends the call, the last answer starts the loop that writes
check_pending_receipt(ft, p, t, call, tx_hash, answer) ==
  LET included == verify_inclusion(answer)
      c == [call EXCEPT !.todo = @ \ {tx_hash},
                        !.finalized = IF included.val THEN Append(@, tx_hash) ELSE @,
                        !.endpoint = http(p)]
  IN IF ~included.ok
     THEN [ft |-> ft, call |-> Returned(call, included)]
     ELSE IF c.todo # {}
     THEN [ft |-> ft, call |-> c]
     ELSE IF c.finalized = << >>
     THEN [ft |-> ft, call |-> Returned(c, FinalityOk(<< >>))]
     ELSE write_pending(ft, t, [c EXCEPT !.i = 1])

\* `self.pending.read().await`: the task waits in the queue of the lock
read_pending(ft, t, call) ==
  [ft |-> Wait(ft, t), call |-> [call EXCEPT !.pc = "pending_read"]]

\* One step of the get_block_number of a call; `answer` is read by the step that
\* follows a request.  An error of get_block_number ends the call; with the head,
\* the call asks for the read lock of `pending`.
finality_block_number(ft, p, t, call, answer) ==
  LET head == get_block_number(p, call.rpc, answer)
  IN IF head.call.pc # "done"
     THEN [ft |-> ft, p |-> head.p, call |-> [call EXCEPT !.rpc = head.call]]
     ELSE IF ~head.call.res.ok
     THEN [ft |-> ft, p |-> head.p,
           call |-> Returned(call, FinalityErr(head.call.res.err))]
     ELSE [p |-> head.p]
            @@ read_pending(ft, t, [call EXCEPT !.current_block = head.call.res.val,
                                                !.rpc = NoProviderCall])

\* FinalityTracker::cleanup_cache: over the limit, the first len / 2 keys of the
\* map's iteration are removed; `first_keys` is that prefix, which the HashMap's
\* order decides
\* keys().take(len / 2): any len / 2 of the keys
FirstKeys(ft) ==
  {ks \in SUBSET DOMAIN ft.finalized :
     Cardinality(ks) = Cardinality(DOMAIN ft.finalized) \div 2}

cleanup_cache(ft, max_entries, first_keys) ==
  IF Cardinality(DOMAIN ft.finalized) > max_entries
  THEN [ft EXCEPT !.finalized = Drop(@, first_keys)]
  ELSE ft

(***************************************************************************)
(* chain/listener.rs: ChainListener                                        *)
(***************************************************************************)
\* ChainListener::new: get_checkpoint(chain_id).await.unwrap_or(0)
ChainListenerNew(ckpts, chain_id, read_ok) ==
  IF read_ok THEN get_checkpoint(ckpts, chain_id) ELSE 0

\* the head of a chain and the logs of its contract in blocks from..to, in the
\* order of the chain (block number, then log index)
BlockNumber(blocks) == IF blocks = << >> THEN 0 ELSE blocks[Len(blocks)].number
\* eth_getLogs as an endpoint answers it
RECURSIVE EthGetLogs(_, _, _)
EthGetLogs(blocks, from_block, to_block) ==
  IF blocks = << >> THEN << >>
  ELSE IF from_block <= Head(blocks).number /\ Head(blocks).number <= to_block
  THEN Head(blocks).logs \o EthGetLogs(Tail(blocks), from_block, to_block)
  ELSE EthGetLogs(Tail(blocks), from_block, to_block)

\* l = [last, ckpts, bus, receivers, events, provider, poll] is a listener with the
\* relations and the channel it writes to.
\* `self.event_tx.send(event.clone())` of process_log: a broadcast channel without
\* receivers returns an error, which process_log ignores, and keeps nothing
event_tx_send(l, event) ==
  [l EXCEPT !.bus = IF l.receivers > 0 THEN Append(@, event) ELSE @]

\* `for log in logs`: the log the i-th iteration processes
LogAt_newest_first(logs, i) == logs[Len(logs) + 1 - i]
LogAt(logs, i) == logs[i]

\* The iteration of listen_polling in progress and, as history, how the last
\* iteration ended.  pc is the await the task is at: "get_block_number" is the sleep
\* before the iteration, "eth_blockNumber" and "eth_getLogs" are the calls of
\* get_block_number and get_logs, which stand at rpc; from_block,
\* to_block, logs and i are the locals of the iteration; outcome is "running" inside
\* an iteration and otherwise says how the last one ended; failed_over: get_logs was
\* answered by another endpoint than the one it asked first; saved: save_checkpoint
\* succeeded; retry: the iteration before ended in a failed get_logs
PollLog(outcome, from_block, to_block, failed_over, saved, retry) ==
  [pc |-> "get_block_number", outcome |-> outcome, from_block |-> from_block,
   to_block |-> to_block, failed_over |-> failed_over, saved |-> saved, retry |-> retry,
   logs |-> << >>, i |-> 0, rpc |-> NoProviderCall]
NoPoll == PollLog("none", 0, 0, FALSE, FALSE, FALSE)

\* a failed get_logs that moves last_processed_block past the window
get_logs_failed_skips_window(l, p) ==
  [l EXCEPT !.last = l.poll.to_block, !.provider = p,
            !.poll = PollLog("logs_failed", l.poll.from_block, l.poll.to_block, TRUE, FALSE,
                             l.poll.retry)]

\* `Err(e) => { warn!(..) }` of the match on get_logs: nothing is written, the
\* iteration ends
get_logs_failed(l, p) ==
  [l EXCEPT !.provider = p,
            !.poll = PollLog("logs_failed", l.poll.from_block, l.poll.to_block, TRUE, FALSE,
                             l.poll.retry)]

\* One step of the loop of listen_polling for a chain whose blocks are `blocks`: the
\* code from the await the task is at (l.poll.pc) up to the next await; the sleep that
\* ends an iteration belongs to the step before it.  env.block_number and
\* env.logs_ok are the answer of the endpoint asked to eth_blockNumber and to
\* eth_getLogs, env.store_ok and env.save_ok the results of store_event and
\* save_checkpoint.  Inside get_block_number and get_logs a step is a step of the
\* call.
listen_polling(l, chain_id, blocks, env) ==
  LET poll == l.poll
  IN \* the sleep is over: get_block_number sends its first request
     CASE poll.pc = "get_block_number" ->
            [l EXCEPT !.poll = [poll EXCEPT !.pc = "eth_blockNumber",
                                            !.rpc = provider_enter(l.provider)]]
       [] poll.pc = "eth_blockNumber" ->
            LET head == get_block_number(l.provider, poll.rpc, env.block_number)
                current_block == head.call.res.val
                last_block == l.last
                from_block == last_block + 1
                to_block == Min(current_block, from_block + 1000)
                retry == poll.outcome = "logs_failed"
            IN IF head.call.pc # "done"
               THEN [l EXCEPT !.provider = head.p, !.poll = [poll EXCEPT !.rpc = head.call]]
               ELSE IF ~head.call.res.ok
               THEN [l EXCEPT !.provider = head.p,
                              !.poll = PollLog("no_head", 0, 0, FALSE, FALSE, retry)]
               ELSE IF current_block <= last_block
               THEN [l EXCEPT !.provider = head.p,
                              !.poll = PollLog("no_new_block", 0, 0, FALSE, FALSE, retry)]
               \* get_logs is entered
               ELSE [l EXCEPT !.provider = head.p,
                              !.poll = [PollLog("running", from_block, to_block, FALSE, FALSE,
                                                retry) EXCEPT !.pc = "eth_getLogs",
                                                              !.rpc = ProviderCall(head.p)]]
       [] poll.pc = "eth_getLogs" ->
            LET logs == get_logs(l.provider, poll.rpc, env.logs_ok,
                                 EthGetLogs(blocks, poll.from_block, poll.to_block))
            IN IF logs.call.pc # "done"
               THEN [l EXCEPT !.provider = logs.p, !.poll = [poll EXCEPT !.rpc = logs.call]]
               ELSE IF ~logs.call.res.ok
               THEN get_logs_failed(l, logs.p)
               ELSE [l EXCEPT !.provider = logs.p,
                              !.poll = [poll EXCEPT
                                          !.pc = IF logs.call.res.val = << >>
                                                 THEN "last_processed_block" ELSE "send",
                                          !.logs = logs.call.res.val, !.i = 1,
                                          !.rpc = NoProviderCall,
                                          !.failed_over = FailedOver(logs.p, poll.rpc)]]
       \* process_log up to its await: parse_log, then the broadcast
       [] poll.pc = "send" ->
            [event_tx_send(l, parse_log(EventParserNew, LogAt(poll.logs, poll.i)))
               EXCEPT !.poll = [poll EXCEPT !.pc = "store_event"]]
       \* store_event returns; an error is logged and the loop goes on
       [] poll.pc = "store_event" ->
            [l EXCEPT !.events = IF env.store_ok
                                 THEN store_event(@, parse_log(EventParserNew,
                                                               LogAt(poll.logs, poll.i)))
                                 ELSE @,
                      !.poll = [poll EXCEPT !.pc = IF poll.i = Len(poll.logs)
                                                   THEN "last_processed_block" ELSE "send",
                                            !.i = @ + 1]]
       \* `*self.last_processed_block.write().await = to_block`
       [] poll.pc = "last_processed_block" ->
            [l EXCEPT !.last = poll.to_block,
                      !.poll = [poll EXCEPT !.pc = "save_checkpoint"]]
       \* save_checkpoint returns; an error is logged
       [] poll.pc = "save_checkpoint" ->
            [l EXCEPT !.ckpts = IF env.save_ok
                                THEN save_checkpoint(@, chain_id, poll.to_block) ELSE @,
                      !.poll = PollLog("ok", poll.from_block, poll.to_block,
                                       poll.failed_over, env.save_ok, poll.retry)]

(***************************************************************************)
(* The answers of the environment to one submit_resolve                    *)
(***************************************************************************)
NodeGasPrices == {100}

\* ChainConfig::max_gas_price_gwei is at most MaxGasPriceGwei
MaxGasPriceGwei == 4

\* a latest block of a chain whose strategy does not read it
NoLatestBlock == LatestBlock(TRUE, FALSE, FALSE, 0)
\* what provider.get_gas_price() returns on a chain with the Legacy strategy
LegacyGasPrices(node_prices) ==
  {provider_get_gas_price("Legacy", 0, node_price, NoLatestBlock) :
     node_price \in node_prices \cup {RpcFailed}}

\* the first attempt of 1..max_attempts that ends the loop, 0 when none does
RECURSIVE FirstDeciding(_, _, _)
FirstDeciding(attempts, i, max_attempts) ==
  IF i > max_attempts THEN 0
  ELSE IF attempts[i] \in {"ok", "nonce_too_low", "insufficient"} THEN i
  ELSE FirstDeciding(attempts, i + 1, max_attempts)

\* One script per distinguishable run: the answers that are never asked for
\* take a fixed value.
SendEnvs(max_attempts) ==
  {env \in [gas_price : LegacyGasPrices(NodeGasPrices),
            attempts : [1..MaxRetries -> AttemptResults],
            on_chain : {RpcFailed} \cup (0..MaxOnChain),
            db_ok : BOOLEAN,
            overflow_checks : BOOLEAN] :
     LET asked == IF ~env.gas_price.ok THEN 0
                  ELSE IF FirstDeciding(env.attempts, 1, max_attempts) = 0 THEN max_attempts
                  ELSE FirstDeciding(env.attempts, 1, max_attempts)
         last == IF asked = 0 THEN "none" ELSE env.attempts[asked]
     IN /\ \A i \in 1..MaxRetries : i > asked => env.attempts[i] = "timeout"
        /\ (last # "nonce_too_low" => env.on_chain = RpcFailed)
        /\ (last # "ok" => env.db_ok)
        /\ (env.overflow_checks =>
              env.gas_price.ok /\ FirstDeciding(env.attempts, 1, max_attempts) = 0)}

\* the scripts for every value of max_retries, tabulated once
SendEnvTable == UNION {{<<m, env>> : env \in SendEnvs(m)} : m \in 0..MaxRetries}
EnvsFor(max_attempts) == {p[2] : p \in {q \in SendEnvTable : q[1] = max_attempts}}

(***************************************************************************)
(* State                                                                   *)
(***************************************************************************)
VARIABLES
  dependency_graph,      \* CoordinationEngine.dependency_graph
  pending_transactions,  \* the relation pending_transactions: tx_id -> row
  nonce_manager,         \* TransactionSender.nonce_manager: chain -> ChainNonceState
  tx_submissions,        \* the relation tx_submissions, in insertion order
  max_retries,           \* RelayerConfig.max_retries
  tick,                  \* where the engine's run loop stands
  submit_count,          \* history: successful submit_resolve calls per tx_id
  submitters,            \* the tasks inside TransactionSender::submit_resolve
  nonce_log,             \* history per chain: nonces issued and released
  returned,              \* history: the (tx_id, hash) pairs submit_resolve returned
  chain_blocks,          \* per chain, the blocks mined so far with the contract's logs
  chain_checkpoints,     \* the relation chain_checkpoints: chain_id -> block_number
  last_processed_block,  \* ChainListener.last_processed_block per chain
  event_bus,             \* the broadcast channel, as the engine's receiver sees it
  event_rx,              \* the receivers of the broadcast channel, in the order they subscribed
  contract_events,       \* the relation contract_events, in insertion order
  restarts,              \* history: how often the listeners were re-created
  chain_provider,        \* ChainManager.providers: chain -> ChainProvider
  last_poll,             \* history per chain: the last iteration of listen_polling
  finality_tracker,      \* the FinalityTracker of a chain
  finality_call,         \* history: the last call of is_finalized
  provider_call,         \* history: the last calls of the listener on its provider
  replay,                \* history: the last StateStore write, and the relations after a replay
  tasks,                 \* the shutdown flags and the tasks main spawned
  graph_call,            \* history: the last call on the DependencyGraph
  arrival,               \* history: two events handled in one order, and the other order's result
  sender_call,           \* history: the last call of send_with_retry or speed_up
  gas_call               \* history: the last call of ChainProvider::get_gas_price

listener_vars == <<chain_blocks, chain_checkpoints, last_processed_block, event_bus, event_rx,
                   contract_events, restarts, chain_provider, last_poll>>

service_vars == <<finality_tracker, finality_call, provider_call, replay, tasks,
                  graph_call,
                  arrival,
                  sender_call,
                  gas_call>>

vars == <<dependency_graph, pending_transactions, nonce_manager, tx_submissions,
          max_retries, tick, submit_count, submitters, nonce_log, returned,
          listener_vars, service_vars>>

\* what the engine's steps leave alone, and what the sender's tasks leave alone
engine_frame == <<submitters, nonce_log, returned, listener_vars, service_vars>>
sender_frame == <<dependency_graph, pending_transactions, tick, submit_count, max_retries,
                  listener_vars, finality_tracker, finality_call, provider_call, replay,
                  tasks, graph_call, arrival, gas_call>>

\* `again` is history: the transaction failed with a retryable error in the tick before
NoStep == [op |-> "none", tx_id |-> NoneId, before |-> "none", cause |-> "none",
           err |-> "none", nonce |-> NoneId, again |-> FALSE]

\* groups_ready is history: the swap groups that were ready when the tick began.
\* retry and due are history: the transactions whose submit_resolve failed with a
\* retryable error in this tick, and those of the tick before (with no other branch
\* of the loop taken in between) that this tick has not yet handed to submit_resolve.
IdleTick == [phase |-> "idle", chains |-> {}, ready |-> {}, last |-> NoStep,
             groups_ready |-> {}, retry |-> {}, due |-> {}]

(***************************************************************************)
(* Initial states: CoordinationEngine::new over a database that already    *)
(* holds rows of pending_transactions                                      *)
(***************************************************************************)
EventTimes == {1}

\* The rows a run may start from: nothing; the two legs of swap group 1, tx 1 on
\* chain 1 and tx 2 on either chain; or tx 1 and a tx 2 that waits on tx 1.
InitDb ==
  {EmptyMap}
  \cup {[t \in TxIds |-> IF t = 1
                         THEN PendingRow(1, 1, NoneId, 1, "buffered", 1)
                         ELSE PendingRow(1, target, NoneId, 1, "buffered", 1)] :
          target \in Chains}
  \cup {[t \in TxIds |-> IF t = 1
                         THEN PendingRow(1, 1, NoneId, NoneId, "buffered", 1)
                         ELSE PendingRow(1, 1, 1, NoneId, "dependency_pending", 1)]}

InitOnChain == {RpcFailed, 0}

EngineNew(rows, on_chain) ==
  /\ pending_transactions = rows
  /\ dependency_graph = AddAll(NewGraph, get_pending_transactions(rows))
  /\ nonce_manager = InitChains(NewNonceManager, Chains, on_chain)
  /\ tx_submissions = << >>
  /\ tick = IdleTick
  /\ submit_count = [t \in TxIds |-> 0]

Submitters == {1, 2}
\* clean: neither a sync nor a release_nonce of another nonce has run since the last
\* allocation; kept: the last allocation returned the nonce released before it
NoNonceLog == [issued |-> {}, released |-> {}, last_alloc |-> {}, expect |-> {},
               clean |-> TRUE, kept |-> {}, reissued |-> {}, sent |-> {}]
NoSubmitters ==
  /\ submitters = [p \in Submitters |-> IdleSubmitter]
  /\ nonce_log = [c \in Chains |-> NoNonceLog]
  /\ returned = {}

\* the chains a listener runs for
ListenerChains == {1}

\* ChainManager::new over empty chains and an empty database; n[c] is the number of
\* endpoints of chain c
ListenersNew(n) ==
  /\ chain_blocks = [c \in ListenerChains |-> << >>]
  /\ chain_checkpoints = EmptyMap
  /\ last_processed_block = [c \in ListenerChains |-> 0]
  /\ event_bus = << >>
  /\ event_rx = << >>
  /\ contract_events = << >>
  /\ restarts = 0
  /\ chain_provider = [c \in ListenerChains |-> ChainProviderNew(n[c], 0)]
  /\ last_poll = [c \in ListenerChains |-> NoPoll]

NoListeners == ListenersNew([c \in ListenerChains |-> 1])

NoFinalityCall ==
  [tx_hash |-> NoneId, before |-> FinalityTrackerNew(1, 0), cur |-> Err("none"),
   receipt |-> NoReceipt, answering |-> {}, res |-> FinalityErr("none")]
NoFinality ==
  /\ finality_tracker = FinalityTrackerNew(1, 0)
  /\ finality_call = NoFinalityCall

NoServices ==
  /\ NoFinality
  /\ provider_call = << >>
  /\ replay = << >>
  /\ gas_call = << >>
  /\ sender_call = << >>
  /\ arrival = << >>
  /\ graph_call = << >>
  /\ tasks = << >>

Init ==
  /\ max_retries = MaxRetries
  /\ \E rows \in InitDb, on_chain \in [Chains -> InitOnChain] : EngineNew(rows, on_chain)
  /\ NoSubmitters
  /\ NoListeners
  /\ NoServices

(***************************************************************************)
(* CoordinationEngine::run: one branch of select! runs to completion       *)
(* before the next is taken                                                *)
(***************************************************************************)
EventChains == {1}

EngineEvents ==
  {ContractEvent("TransactionBuffered", c, t, NoneId, ts) :
      c \in EventChains, t \in TxIds, ts \in EventTimes}
  \cup {ContractEvent(n, 1, t, NoneId, 0) :
      n \in {"TransactionReady", "TransactionExecuted", "TransactionFailed",
             "TransactionExpired"}, t \in TxIds}
  \cup {ContractEvent("DependencyResolved", 1, t, d, 0) : t \in TxIds, d \in TxIds}
  \cup {ContractEvent(n, 1, NoneId, NoneId, 0) :
      n \in {"SwapFillCreated", "ContractPaused", "CircuitBreakerTriggered", "Unknown"}}

HandleEvent ==
  /\ tick.phase = "idle"
  /\ \E ev \in EngineEvents, db_ok \in BOOLEAN, db_now \in EventTimes :
       LET st == handle_event([graph |-> dependency_graph, rows |-> pending_transactions],
                              ev, db_ok, db_now)
       IN /\ dependency_graph' = st.graph
          /\ pending_transactions' = st.rows
  /\ tick' = IdleTick
  /\ UNCHANGED <<nonce_manager, tx_submissions, max_retries, submit_count,
                 engine_frame>>

\* process_pending starts: `for chain_id in connected_chains()`.  The guard keeps
\* the nonces of the model within MaxNonce.
TickBegin ==
  /\ tick.phase = "idle"
  /\ \A c \in DOMAIN nonce_manager :
       nonce_manager[c].current + Cardinality(get_ready_for_chain(dependency_graph, c))
         <= MaxNonce
  /\ tick' = [phase |-> "run", chains |-> Chains, ready |-> {}, last |-> NoStep,
              groups_ready |-> {grp \in DOMAIN dependency_graph.swap_groups :
                                  is_swap_group_ready(dependency_graph, grp)},
              retry |-> {}, due |-> tick.retry]
  /\ UNCHANGED <<engine_frame, dependency_graph, pending_transactions, nonce_manager,
                 tx_submissions,
                 max_retries, submit_count>>

\* the next chain of the DashMap iteration and its snapshot of ready transactions
TickNextChain ==
  /\ tick.phase = "run" /\ tick.ready = {} /\ tick.chains # {}
  /\ \E c \in tick.chains :
       tick' = [tick EXCEPT !.chains = @ \ {c},
                            !.ready = get_ready_for_chain(dependency_graph, c),
                            !.last = NoStep]
  /\ UNCHANGED <<engine_frame, dependency_graph, pending_transactions, nonce_manager,
                 tx_submissions,
                 max_retries, submit_count>>

\* `if !is_swap_group_ready(&group_id) { continue }`
Gated(g, tx) == tx.swap_group_id # NoneId /\ ~is_swap_group_ready(g, tx.swap_group_id)

TickSkip ==
  /\ tick.phase = "run"
  /\ \E tx \in tick.ready :
       /\ Gated(dependency_graph, tx)
       /\ tick' = [tick EXCEPT !.ready = @ \ {tx},
                     !.last = [NoStep EXCEPT !.op = "skip", !.tx_id = tx.tx_id,
                                             !.before = tx.state]]
  /\ UNCHANGED <<engine_frame, dependency_graph, pending_transactions, nonce_manager,
                 tx_submissions,
                 max_retries, submit_count>>

\* the match on submit_resolve's result
\* AfterSubmit without the test of is_retryable: every error marks the transaction Failed
AfterSubmit_every_error_fails(g, tx_id, res) ==
  IF res.ok THEN mark_submitted(g, tx_id)
  ELSE mark_failed(g, tx_id)

AfterSubmit(g, tx_id, res) ==
  IF res.ok THEN mark_submitted(g, tx_id)
  ELSE IF is_retryable(res.err) THEN g
  ELSE mark_failed(g, tx_id)

TickSubmit ==
  /\ tick.phase = "run"
  /\ \E tx \in tick.ready, env \in EnvsFor(max_retries) :
       LET r == submit_resolve([nonce_manager |-> nonce_manager,
                                tx_submissions |-> tx_submissions], tx, max_retries, env)
       IN /\ ~Gated(dependency_graph, tx)
          /\ nonce_manager' = r.s.nonce_manager
          /\ tx_submissions' = r.s.tx_submissions
          /\ dependency_graph' = IF r.cause = "panicked" THEN dependency_graph
                                 ELSE AfterSubmit(dependency_graph, tx.tx_id, r.res)
          /\ submit_count' = IF r.res.ok
                             THEN [submit_count EXCEPT ![tx.tx_id] = @ + 1]
                             ELSE submit_count
          /\ tick' = [tick EXCEPT !.ready = @ \ {tx},
                        !.phase = IF r.cause = "panicked" THEN "panicked" ELSE @,
                        !.last = [op |-> "submit", tx_id |-> tx.tx_id, before |-> tx.state,
                                  cause |-> r.cause, err |-> r.res.err, nonce |-> r.nonce,
                                  again |-> tx.tx_id \in tick.due],
                        !.due = @ \ {tx.tx_id},
                        !.retry = IF ~r.res.ok /\ is_retryable(r.res.err)
                                  THEN @ \cup {tx.tx_id} ELSE @]
  /\ UNCHANGED <<pending_transactions, max_retries, engine_frame>>

TickEnd ==
  /\ tick.phase = "run" /\ tick.ready = {} /\ tick.chains = {}
  /\ tick' = [IdleTick EXCEPT !.retry = tick.retry]
  /\ UNCHANGED <<engine_frame, dependency_graph, pending_transactions, nonce_manager,
                 tx_submissions,
                 max_retries, submit_count>>

\* the wall clock at a cleanup tick (created_at is 1 in every row and event)
CleanupTimes == {0, 86401, 86402}

\* the limit the engine passes to cleanup_cache
CacheLimit == 10000

\* cleanup_interval tick: dependency_graph.cleanup(86400), then cleanup_cache(10000)
\* on the finality tracker of every connected chain.  With overflow checks (a debug
\* build) a created_at later than now panics the engine task before the caches are
\* reached.
Cleanup ==
  /\ tick.phase = "idle"
  /\ \E now \in CleanupTimes, overflow_checks \in BOOLEAN :
       IF overflow_checks /\ CleanupOverflows(dependency_graph, now)
       THEN /\ tick' = [IdleTick EXCEPT !.phase = "panicked"]
            /\ UNCHANGED <<dependency_graph, finality_tracker>>
       ELSE /\ dependency_graph' = cleanup(dependency_graph, 86400, now)
            /\ \E first_keys \in FirstKeys(finality_tracker) :
                 finality_tracker' = cleanup_cache(finality_tracker, CacheLimit, first_keys)
            /\ tick' = IdleTick
  /\ UNCHANGED <<submitters, nonce_log, returned, listener_vars, finality_call,
                 provider_call, replay, tasks, graph_call, arrival, sender_call, gas_call,
                 pending_transactions, nonce_manager, tx_submissions, max_retries,
                 submit_count>>

Next ==
  HandleEvent \/ TickBegin \/ TickNextChain \/ TickSkip \/ TickSubmit \/ TickEnd \/ Cleanup

Spec == Init /\ [][Next]_vars

(***************************************************************************)
(* Specification SpecSender: tasks that share one TransactionSender.  A    *)
(* task inside submit_resolve holds no lock across an await, so the calls  *)
(* on the NonceManager and the database of several tasks interleave.       *)
(***************************************************************************)
MaxRows == 2

SenderOnChain == {RpcFailed, 0, 1}

\* the calls of submit_resolve and speed_up a task makes
MaxCalls == 2

\* the calls the tasks of SpecSender make in all
SenderCalls == 4

\* the chains the sender's ChainManager is connected to
SenderChains == {1}

\* the transactions the tasks submit
SenderTxs == {1}

\* the attempts SenderConfig allows in SpecSender
SenderRetries == 2

InitSender ==
  /\ max_retries = SenderRetries
  /\ \E on_chain \in [SenderChains -> SenderOnChain] :
       nonce_manager = InitChains(NewNonceManager, SenderChains, on_chain)
  /\ tx_submissions = << >>
  /\ NoSubmitters
  /\ NoListeners
  /\ NoServices
  /\ dependency_graph = NewGraph
  /\ pending_transactions = EmptyMap
  /\ tick = IdleTick
  /\ submit_count = [t \in TxIds |-> 0]

\* what the wallet and the node answer to an attempt in SpecSender: the answers that
\* make send_with_retry try again differ only in the error it returns when the
\* attempts run out, which no task looks at, so a timeout stands for them
SenderAnswers == {"ok", "nonce_too_low", "insufficient", "timeout"}

\* what provider.get_gas_price() returns in SpecSender, whose chain has the Eip1559
\* strategy: an error when get_block(Latest) fails, and the fees at a base fee of
\* 1 gwei
SenderGasPrices ==
  {provider_get_gas_price("Eip1559", MaxGasPriceGwei, RpcFailed, block) :
     block \in {NoLatestBlock, LatestBlock(FALSE, TRUE, TRUE, Gwei)}}

\* what eth_getTransactionCount answers to the sync after "nonce too low"
SyncOnChain == {RpcFailed} \cup (0..MaxOnChain)

\* the calls the tasks S have made
RECURSIVE CallsMade(_)
CallsMade(S) ==
  IF S = {} THEN 0
  ELSE LET p == CHOOSE q \in S : TRUE
       IN submitters[p].calls + CallsMade(S \ {p})

\* task p may make another call when budget calls are made in all
MayCall(p, budget) ==
  /\ submitters[p].pc = "idle"
  /\ submitters[p].calls < MaxCalls
  /\ CallsMade(Submitters) < budget

\* history of a successful get_nonce
LogAlloc(log, n) ==
  [log EXCEPT !.reissued = IF n \in log.issued THEN @ \cup {n} ELSE @,
              !.issued = @ \cup {n}, !.released = @ \ {n},
              !.kept = IF log.clean THEN log.expect \cap {n} ELSE {},
              !.last_alloc = {n}, !.expect = {}, !.clean = TRUE]

\* history of release_nonce(k) called on the state st of the chain: `released`
\* takes k when k is the top (current - 1), `expect` when k is the nonce allocated last
LogRelease(log, st, k) ==
  [log EXCEPT !.released = IF st.current > 0 /\ k = st.current - 1 THEN @ \cup {k} ELSE @,
              !.expect = IF k \in log.last_alloc THEN {k} ELSE @,
              !.clean = IF k \in log.last_alloc THEN @ ELSE FALSE]

\* history of a sync that reached the state of the chain
LogSync(log) == [log EXCEPT !.clean = FALSE]

\* the history of chain c becomes log, in the specifications that keep it
Logged(c, log) ==
  IF c \in DOMAIN nonce_log THEN [nonce_log EXCEPT ![c] = log] ELSE nonce_log

\* a call that used up its attempts and went on to release_nonce, the state of its
\* chain before and after that
SenderCall(me, before, after) ==
  [op |-> me.op, chain |-> me.chain, nonce |-> me.nonce, sends |-> me.attempts,
   answer |-> me.answer, res |-> me.res, cause |-> me.cause,
   before |-> before[me.chain], after |-> after[me.chain]]
NoSenderCall ==
  [op |-> "new", chain |-> NoneId, nonce |-> NoneId, sends |-> 0, answer |-> "none",
   res |-> Err("none"), cause |-> "none", before |-> ChainNonceState(0, EmptyMap, 0),
   after |-> ChainNonceState(0, EmptyMap, 0)]

\* task p stands at `me` after its step, which left the nonce manager as `after`; a
\* task that returned is idle again, and the specifications with the history
\* sender_call keep the call that used up its attempts
SetSubmitter(p, me, after) ==
  /\ submitters' = [submitters EXCEPT ![p] =
                      IF me.pc = "return" THEN [IdleSubmitter EXCEPT !.calls = me.calls]
                      ELSE IF me.pc = "panicked"
                      THEN [IdleSubmitter EXCEPT !.pc = "panicked", !.calls = me.calls]
                      ELSE me]
  /\ sender_call' = IF me.cause \in {"exhausted", "panicked"} /\ DOMAIN sender_call # {}
                    THEN SenderCall(me, nonce_manager, after)
                    ELSE sender_call

\* submit_resolve up to `let nonce = self.nonce_manager.get_nonce(chain_id).await?`,
\* and the request of get_gas_price
S_GetNonce(p, budget) ==
  /\ MayCall(p, budget)
  /\ \E tx_id \in SenderTxs, chain \in SenderChains :
       LET alloc == get_nonce(nonce_manager, chain)
       IN /\ chain \in DOMAIN nonce_manager => nonce_manager[chain].current <= MaxNonce
          /\ nonce_manager' = alloc.nm
          /\ IF alloc.res.ok
             THEN /\ submitters' = [submitters EXCEPT ![p] =
                        [IdleSubmitter EXCEPT !.op = "submit_resolve", !.pc = "get_gas_price",
                                              !.tx_id = tx_id, !.chain = chain,
                                              !.nonce = alloc.res.val,
                                              !.calls = submitters[p].calls + 1]]
                  /\ nonce_log' = Logged(chain, LogAlloc(nonce_log[chain], alloc.res.val))
             ELSE UNCHANGED <<submitters, nonce_log>>
  /\ UNCHANGED <<tx_submissions, returned, sender_call, sender_frame>>

\* the transaction a pending hash was computed from
SignedTx(hash_str) == hash_str[2].signed

\* speed_up(chain, k, original_tx) is called for a transaction that
\* get_stuck_transactions reports, an entry k of the pending map (nonce.rs 217-222),
\* up to the request of get_gas_price
S_SpeedUp(p, budget) ==
  /\ MayCall(p, budget)
  /\ \E c \in DOMAIN nonce_manager :
       \E k \in DOMAIN nonce_manager[c].pending :
         submitters' = [submitters EXCEPT ![p] =
           [IdleSubmitter EXCEPT !.op = "speed_up", !.pc = "get_gas_price", !.chain = c,
                                 !.nonce = k, !.calls = submitters[p].calls + 1,
                                 !.original_tx = SignedTx(nonce_manager[c].pending[k])]]
  /\ UNCHANGED <<nonce_manager, nonce_log, tx_submissions, returned, sender_call, sender_frame>>

\* the answer to get_gas_price: one of gas_prices
S_GasPrice(p, gas_prices) ==
  /\ submitters[p].pc = "get_gas_price"
  /\ \E gas_price \in gas_prices :
       SetSubmitter(p, IF submitters[p].op = "submit_resolve"
                       THEN submit_resolve_gas_price(submitters[p], max_retries, gas_price)
                       ELSE speed_up(submitters[p], max_retries, gas_price),
                    nonce_manager)
  /\ UNCHANGED <<nonce_manager, nonce_log, tx_submissions, returned, sender_frame>>

\* the answer to an attempt of send_with_retry: one of answers
S_Attempt(p, answers) ==
  /\ submitters[p].pc = "send_raw_transaction"
  /\ \E answer \in answers :
       SetSubmitter(p, send_with_retry_attempt(submitters[p], max_retries, answer),
                    nonce_manager)
  /\ UNCHANGED <<nonce_manager, nonce_log, tx_submissions, returned, sender_frame>>

\* sync after "nonce too low"; the answer to its fetch_nonce is one of on_chains
S_Sync(p, on_chains) ==
  /\ submitters[p].pc = "sync"
  /\ \E on_chain \in on_chains :
       LET me == submitters[p]
           r == send_with_retry_sync(nonce_manager, me, on_chain)
       IN /\ nonce_manager' = r.nm
          /\ nonce_log' = IF on_chain = RpcFailed THEN nonce_log
                          ELSE Logged(me.chain, LogSync(nonce_log[me.chain]))
          /\ SetSubmitter(p, r.me, r.nm)
  /\ UNCHANGED <<tx_submissions, returned, sender_frame>>

\* release_nonce when the attempts are used up; the build decides what
\* `state.current - 1` does when current is 0
S_Release(p) ==
  /\ submitters[p].pc = "release_nonce"
  /\ LET me == submitters[p]
     IN \E overflow_checks \in IF nonce_manager[me.chain].current = 0 THEN BOOLEAN
                               ELSE {FALSE} :
          LET r == send_with_retry_release(nonce_manager, me, overflow_checks)
          IN /\ nonce_manager' = r.nm
             /\ nonce_log' = Logged(me.chain, LogRelease(nonce_log[me.chain],
                                                         nonce_manager[me.chain], me.nonce))
             /\ SetSubmitter(p, r.me, r.nm)
  /\ UNCHANGED <<tx_submissions, returned, sender_frame>>

\* `self.nonce_manager.mark_pending(chain_id, nonce, hash).await?`
S_MarkPending(p) ==
  /\ submitters[p].pc = "mark_pending"
  /\ LET me == submitters[p]
         r == submit_resolve_mark_pending(nonce_manager, me)
     IN /\ nonce_manager' = r.nm
        /\ SetSubmitter(p, r.me, r.nm)
        /\ nonce_log' = IF r.me.pc = "record_submission"
                        THEN Logged(me.chain, [nonce_log[me.chain] EXCEPT
                                                 !.sent = @ \cup {me.nonce}])
                        ELSE nonce_log
  /\ UNCHANGED <<tx_submissions, returned, sender_frame>>

\* `self.state_manager.record_submission(..).await?` and the return of the hash
S_Record(p) ==
  /\ submitters[p].pc = "record_submission"
  /\ \E db_ok \in BOOLEAN :
       LET me == submitters[p]
           r == submit_resolve_record(tx_submissions, me, db_ok)
       IN /\ tx_submissions' = r.rows
          /\ returned' = IF r.me.res.ok
                         THEN returned \cup {[tx_id |-> me.tx_id, hash |-> me.hash]}
                         ELSE returned
          /\ SetSubmitter(p, r.me, nonce_manager)
  /\ UNCHANGED <<nonce_manager, nonce_log, sender_frame>>

\* confirm_nonce(chain, k) for a nonce k that is pending on the chain
S_Confirm ==
  /\ \E c \in DOMAIN nonce_manager :
       \E k \in DOMAIN nonce_manager[c].pending :
         nonce_manager' = confirm_nonce(nonce_manager, c, k).nm
  /\ UNCHANGED <<tx_submissions, submitters, nonce_log, returned, sender_call, sender_frame>>

NextSender ==
  \/ \E p \in Submitters : S_GetNonce(p, SenderCalls)
  \/ \E p \in Submitters : S_SpeedUp(p, SenderCalls)
  \/ \E p \in Submitters : S_GasPrice(p, SenderGasPrices)
  \/ \E p \in Submitters : S_Attempt(p, SenderAnswers)
  \/ \E p \in Submitters : S_Sync(p, SyncOnChain)
  \/ \E p \in Submitters : S_Release(p)
  \/ \E p \in Submitters : S_MarkPending(p)
  \/ \E p \in Submitters : S_Record(p)
  \/ S_Confirm

SpecSender == InitSender /\ [][NextSender]_vars

(***************************************************************************)
(* Specification SpecListener: a chain, its listener and the database,     *)
(* with failing RPC and database calls and re-creation of the listener     *)
(***************************************************************************)
MaxBlocks == 2
MaxRestarts == 1

\* a block follows its parent, or the contract stays silent for 1000 blocks first
Strides == {1, 1001}

ListenerTopics == {"TransactionBuffered"}
ListenerTxs == {1}

\* a chain with one endpoint: a failed request is a failed call (SpecFailover has
\* the chains with several endpoints)
InitListener ==
  /\ NoListeners
  /\ NoSubmitters
  /\ NoServices
  /\ max_retries = MaxRetries
  /\ EngineNew(EmptyMap, [c \in Chains |-> 0])

\* the logs a new block n may carry: at most max_logs, all of one topic
BlockLogs(n, topics, max_logs) ==
  {<< >>}
  \cup {<<Log(n, 0, topic, t)>> : topic \in topics, t \in ListenerTxs}
  \cup {<<Log(n, 0, topic, t), Log(n, 1, topic, t)>> :
          topic \in IF max_logs > 1 THEN topics ELSE {}, t \in ListenerTxs}

\* the chain grows by a block
MineBlockOf(c, topics, max_logs, max_blocks) ==
  /\ Len(chain_blocks[c]) < max_blocks
  /\ \E stride \in Strides :
       LET n == BlockNumber(chain_blocks[c]) + stride
       IN \E logs \in BlockLogs(n, topics, max_logs) :
            chain_blocks' = [chain_blocks EXCEPT ![c] = Append(@, [number |-> n, logs |-> logs])]

Listener(c) == [last |-> last_processed_block[c], ckpts |-> chain_checkpoints,
                bus |-> event_bus, receivers |-> Len(event_rx), events |-> contract_events,
                provider |-> chain_provider[c], poll |-> last_poll[c]]

\* the answers to one step of listen_polling; those that the step does not ask for
\* take a fixed value
NoPollEnv ==
  [block_number |-> RpcFailed, logs_ok |-> FALSE, store_ok |-> TRUE, save_ok |-> TRUE]

\* the answers to the await the listener of chain c is at: the endpoint asked may
\* fail either request, and the database may fail either write when db_fails
PollEnvsOf(c, db_fails) ==
  LET pc == last_poll[c].pc
      answered == last_poll[c].rpc.pc = "await"
      db == IF db_fails THEN BOOLEAN ELSE {TRUE}
  IN CASE pc = "eth_blockNumber" /\ answered ->
            {[NoPollEnv EXCEPT !.block_number = head] :
               head \in {RpcFailed, BlockNumber(chain_blocks[c])}}
       [] pc = "eth_getLogs" /\ answered ->
            {[NoPollEnv EXCEPT !.logs_ok = ok] : ok \in BOOLEAN}
       [] pc = "store_event" -> {[NoPollEnv EXCEPT !.store_ok = ok] : ok \in db}
       [] pc = "save_checkpoint" -> {[NoPollEnv EXCEPT !.save_ok = ok] : ok \in db}
       [] OTHER -> {NoPollEnv}

PollEnvs(c) == PollEnvsOf(c, TRUE)

SetListener(c, l) ==
  /\ last_processed_block' = [last_processed_block EXCEPT ![c] = l.last]
  /\ chain_checkpoints' = l.ckpts
  /\ event_bus' = l.bus
  /\ event_rx' = event_rx
  /\ contract_events' = l.events
  /\ chain_provider' = [chain_provider EXCEPT ![c] = l.provider]
  /\ last_poll' = [last_poll EXCEPT ![c] = l.poll]

\* ChainManager::subscribe_events, which CoordinationEngine::run calls once before
\* its loop: the channel gets a receiver, which is handed what is sent from now on
SubscribeEvents ==
  /\ event_rx = << >>
  /\ event_rx' = Append(event_rx, "engine")
  /\ UNCHANGED <<chain_blocks, chain_checkpoints, last_processed_block, event_bus,
                 contract_events, restarts, chain_provider, last_poll>>
  /\ UNCHANGED <<dependency_graph, pending_transactions, nonce_manager, tx_submissions,
                 max_retries, tick, submit_count, submitters, nonce_log, returned,
                 service_vars>>

L_Mine ==
  /\ \E c \in ListenerChains : MineBlockOf(c, ListenerTopics, 2, MaxBlocks)
  /\ UNCHANGED <<chain_checkpoints, last_processed_block, event_bus, event_rx, contract_events,
                 restarts, chain_provider, last_poll>>
  /\ UNCHANGED <<dependency_graph, pending_transactions, nonce_manager, tx_submissions,
                 max_retries, tick, submit_count, submitters, nonce_log, returned,
                 service_vars>>

\* one step of the listener task of a chain
L_Poll ==
  /\ \E c \in ListenerChains :
       \E env \in PollEnvs(c) :
         \E l \in {listen_polling(Listener(c), c, chain_blocks[c], env)} : SetListener(c, l)
  /\ UNCHANGED <<chain_blocks, restarts>>
  /\ UNCHANGED <<dependency_graph, pending_transactions, nonce_manager, tx_submissions,
                 max_retries, tick, submit_count, submitters, nonce_log, returned,
                 service_vars>>

\* the process restarts: ChainManager::new makes a new channel, new providers (the
\* first endpoint is asked for the head once) and new listeners
L_Restart ==
  /\ restarts < MaxRestarts
  /\ restarts' = restarts + 1
  /\ \E read_ok \in [ListenerChains -> BOOLEAN] :
       last_processed_block' =
         [c \in ListenerChains |-> ChainListenerNew(chain_checkpoints, c, read_ok[c])]
  /\ \E head_ok \in [ListenerChains -> BOOLEAN] :
       chain_provider' =
         [c \in ListenerChains |->
            ChainProviderNew(chain_provider[c].n,
                             IF head_ok[c] THEN BlockNumber(chain_blocks[c]) ELSE 0)]
  /\ last_poll' = [c \in ListenerChains |-> NoPoll]
  /\ event_bus' = << >>
  /\ event_rx' = << >>
  /\ UNCHANGED <<chain_blocks, chain_checkpoints, contract_events>>
  /\ UNCHANGED <<dependency_graph, pending_transactions, nonce_manager, tx_submissions,
                 max_retries, tick, submit_count, submitters, nonce_log, returned,
                 service_vars>>

NextListener == L_Mine \/ L_Poll \/ L_Restart \/ SubscribeEvents

SpecListener == InitListener /\ [][NextListener]_vars

\* C5: no write to the durable checkpoint of a chain lowers its block number.
CheckpointNonDecreasing ==
  [][\A c \in DOMAIN chain_checkpoints :
       c \in DOMAIN chain_checkpoints' => chain_checkpoints'[c] >= chain_checkpoints[c]]_vars

\* the step of an iteration of chain c's listener that ended as `outcomes` says
PollStep(c, outcomes) ==
  last_poll'[c] # last_poll[c] /\ last_poll'[c].outcome \in outcomes

\* C12: an iteration whose get_logs failed changes neither last_processed_block nor
\* the durable checkpoint, and the iteration after it that reaches get_logs asks for
\* a window that starts at the same from block.
FailedWindowRetried ==
  [][\A c \in ListenerChains :
       /\ PollStep(c, {"logs_failed"}) =>
            /\ last_processed_block'[c] = last_processed_block[c]
            /\ chain_checkpoints' = chain_checkpoints
       /\ (last_poll[c].outcome = "logs_failed" /\ last_poll'[c].pc = "eth_getLogs") =>
            last_poll'[c].from_block = last_poll[c].from_block]_vars

\* a window whose get_logs failed was asked for again, and its logs were broadcast
FailedWindowRetriedWitness ==
  \E c \in ListenerChains :
    /\ last_poll[c].outcome = "ok" /\ last_poll[c].retry
    /\ last_processed_block[c] = last_poll[c].to_block
    /\ event_bus # << >>

\* C27: after every completed scan window the in-memory last_processed_block and
\* the durable checkpoint of the chain both hold the window's to block, also when
\* the checkpoint write failed.
CheckpointEqualsLastProcessed ==
  \A c \in ListenerChains :
    last_poll[c].outcome = "ok" =>
      /\ last_processed_block[c] = last_poll[c].to_block
      /\ get_checkpoint(chain_checkpoints, c) = last_poll[c].to_block

\* the steps of chain c's listener, within one run, that compute a window and that
\* write last_processed_block
WindowStep(c) ==
  /\ restarts' = restarts
  /\ last_poll[c].pc = "eth_blockNumber" /\ last_poll'[c].pc = "eth_getLogs"
AdvanceStep(c) ==
  /\ restarts' = restarts
  /\ last_poll[c].pc = "last_processed_block" /\ last_poll'[c].pc = "save_checkpoint"

\* C40: within one run of the listener, an iteration that reaches get_logs asks for
\* the window that starts at last_processed_block + 1, is not empty and ends at most
\* at the chain head; when its get_logs succeeded it moves last_processed_block,
\* which still precedes the window, to the window's end; last_processed_block
\* changes in no other step, and never exceeds the head.  So the successful windows
\* of a run neither overlap nor leave a gap.
WindowsContiguous ==
  [][\A c \in ListenerChains :
       /\ WindowStep(c) =>
            /\ last_poll'[c].from_block = last_processed_block[c] + 1
            /\ last_poll'[c].from_block <= last_poll'[c].to_block
            /\ last_poll'[c].to_block <= BlockNumber(chain_blocks[c])
       /\ AdvanceStep(c) =>
            /\ last_poll[c].from_block = last_processed_block[c] + 1
            /\ last_processed_block'[c] = last_poll[c].to_block
       /\ (restarts' = restarts /\ last_processed_block'[c] # last_processed_block[c]) =>
            AdvanceStep(c)
       /\ restarts' = restarts =>
            last_processed_block'[c] <= BlockNumber(chain_blocks'[c])]_vars

\* C40 witness: in the first run of the listener a successful window followed an
\* earlier successful window
SecondWindowInRun ==
  \E c \in ListenerChains :
    /\ restarts = 0
    /\ last_poll[c].outcome = "ok"
    /\ last_poll[c].from_block > 1
    /\ last_processed_block[c] = last_poll[c].to_block

\* C13: the window from_block..=to_block an iteration asks get_logs for holds at
\* most 1000 blocks.
WindowAtMost1000Blocks ==
  \A c \in ListenerChains :
    last_poll[c].from_block > 0 =>
      last_poll[c].to_block - last_poll[c].from_block + 1 <= 1000

\* the events that require an engine state change; parse_log wraps every log as
\* Unknown, which keeps the topic the contract emitted
ActionableEvents ==
  {"TransactionBuffered", "TransactionReady", "DependencyResolved", "TransactionExecuted",
   "TransactionFailed", "SwapFillCreated", "ContractPaused", "CircuitBreakerTriggered"}
IsActionable(event) ==
  \/ event.name \in ActionableEvents
  \/ event.name = "Unknown" /\ event.topic \in ActionableEvents
\* C14: every actionable event that is on the broadcast bus has a row in
\* contract_events.
PersistedBeforeBroadcast ==
  \A i \in 1..Len(event_bus) :
    IsActionable(event_bus[i]) =>
      \E k \in 1..Len(contract_events) : contract_events[k].event_data = event_bus[i]

\* the position (block number, log index) of the log an event was parsed from
EventPosition(event) == <<event.block_number, event.tx_hash[3]>>
PositionBefore(a, b) == a[1] < b[1] \/ (a[1] = b[1] /\ a[2] < b[2])
\* C15: the events a listener has sent on the bus are in the order of their
\* positions (block number, then log index) on the chain.
BusInChainOrder ==
  \A i, j \in 1..Len(event_bus) :
    i < j => PositionBefore(EventPosition(event_bus[i]), EventPosition(event_bus[j]))

\* the bus holds two events of one block and an event of a later block, sent in
\* different windows, the last of them after a failed get_logs
BusInChainOrderWitness ==
  /\ \E i, j \in 1..Len(event_bus) :
       /\ event_bus[i].block_number = event_bus[j].block_number
       /\ event_bus[i].tx_hash # event_bus[j].tx_hash
  /\ \E i, j \in 1..Len(event_bus) : event_bus[i].block_number < event_bus[j].block_number
  /\ \E c \in ListenerChains : last_poll[c].outcome = "ok" /\ last_poll[c].retry

(***************************************************************************)
(* Specification SpecPipeline: chain, listener, broadcast channel and      *)
(* engine together, with every RPC, database and send call succeeding      *)
(***************************************************************************)
PipelineTopics == {"TransactionBuffered", "DependencyResolved", "TransactionExecuted"}
\* the blocks a pipeline run mines: one for each event of the happy path
PipelineBlocks == 3

\* the scripts in which the first attempt of every call succeeds
HappyEnvs(max_attempts) ==
  {env \in EnvsFor(max_attempts) :
     env.gas_price.ok /\ env.attempts[1] = "ok" /\ env.db_ok}

\* st = [graph, s, count]: the body of process_pending's inner loop for one transaction
ProcessTx(st, tx, max_attempts, env) ==
  IF Gated(st.graph, tx) THEN st
  ELSE LET r == submit_resolve(st.s, tx, max_attempts, env)
       IN [graph |-> AfterSubmit(st.graph, tx.tx_id, r.res),
           s |-> r.s,
           count |-> IF r.res.ok THEN [st.count EXCEPT ![tx.tx_id] = @ + 1] ELSE st.count]

\* the states the inner loop may end in: the order of get_ready_for_chain is that
\* of a HashMap
RECURSIVE ProcessTxs(_, _, _, _)
ProcessTxs(st, todo, max_attempts, env) ==
  IF todo = {} THEN {st}
  ELSE UNION {ProcessTxs(ProcessTx(st, tx, max_attempts, env), todo \ {tx},
                         max_attempts, env) : tx \in todo}

RECURSIVE ProcessChains(_, _, _, _)
ProcessChains(st, chains, max_attempts, env) ==
  IF chains = {} THEN {st}
  ELSE UNION {UNION {ProcessChains(st2, chains \ {c}, max_attempts, env) :
                       st2 \in ProcessTxs(st, get_ready_for_chain(st.graph, c),
                                          max_attempts, env)} : c \in chains}

\* one whole tick of process_pending
process_pending(st, max_attempts, env) == ProcessChains(st, Chains, max_attempts, env)

InitPipeline == InitListener

P_Mine ==
  /\ \E c \in ListenerChains : MineBlockOf(c, PipelineTopics, 1, PipelineBlocks)
  /\ UNCHANGED <<chain_checkpoints, last_processed_block, event_bus, event_rx, contract_events,
                 restarts, chain_provider, last_poll>>
  /\ UNCHANGED <<dependency_graph, pending_transactions, nonce_manager, tx_submissions,
                 max_retries, tick, submit_count, submitters, nonce_log, returned,
                 service_vars>>

\* the answers to a step of a listener in which every call succeeds
HappyPoll(blocks) ==
  [block_number |-> BlockNumber(blocks), logs_ok |-> TRUE, store_ok |-> TRUE,
   save_ok |-> TRUE]

\* a step of the listener task in which every call succeeds
P_Poll ==
  /\ \E c \in ListenerChains :
       \E env \in {HappyPoll(chain_blocks[c])} :
         \E l \in {listen_polling(Listener(c), c, chain_blocks[c], env)} : SetListener(c, l)
  /\ UNCHANGED <<chain_blocks, restarts>>
  /\ UNCHANGED <<dependency_graph, pending_transactions, nonce_manager, tx_submissions,
                 max_retries, tick, submit_count, submitters, nonce_log, returned,
                 service_vars>>

\* the engine's event_rx.recv() branch
P_Recv ==
  /\ event_rx # << >>
  /\ event_bus # << >>
  /\ \E db_now \in EventTimes :
       LET st == handle_event([graph |-> dependency_graph, rows |-> pending_transactions],
                              Head(event_bus), TRUE, db_now)
       IN /\ dependency_graph' = st.graph
          /\ pending_transactions' = st.rows
  /\ event_bus' = Tail(event_bus)
  /\ UNCHANGED <<chain_blocks, chain_checkpoints, last_processed_block, event_rx,
                 contract_events, restarts, chain_provider, last_poll>>
  /\ UNCHANGED <<nonce_manager, tx_submissions, max_retries, tick, submit_count,
                 submitters, nonce_log, returned, service_vars>>

\* the engine's process_interval branch
P_Tick ==
  /\ \E env \in HappyEnvs(max_retries) :
       \E st \in process_pending([graph |-> dependency_graph,
                                  s |-> [nonce_manager |-> nonce_manager,
                                         tx_submissions |-> tx_submissions],
                                  count |-> submit_count], max_retries, env) :
         /\ dependency_graph' = st.graph
         /\ nonce_manager' = st.s.nonce_manager
         /\ tx_submissions' = st.s.tx_submissions
         /\ submit_count' = st.count
  /\ UNCHANGED <<pending_transactions, max_retries, tick, submitters, nonce_log, returned,
                 listener_vars, service_vars>>

NextPipeline == P_Mine \/ P_Poll \/ SubscribeEvents \/ P_Recv \/ P_Tick

\* the listener task and the engine's loop keep running
SpecPipeline ==
  /\ InitPipeline
  /\ [][NextPipeline]_vars
  /\ WF_vars(P_Poll) /\ WF_vars(SubscribeEvents) /\ WF_vars(P_Recv) /\ WF_vars(P_Tick)

\* the contract has emitted `topic` for t, in a block after the one it emitted
\* `earlier` for t in
Emitted(topic, t) ==
  {i \in 1..Len(chain_blocks[1]) : chain_blocks[1][i].logs # << >>
                                     /\ chain_blocks[1][i].logs[1].topic = topic
                                     /\ chain_blocks[1][i].logs[1].tx_id = t}
EmittedAfter(topic, earlier, t) ==
  \E i \in Emitted(earlier, t), j \in Emitted(topic, t) : i < j

\* C10: once the contract has emitted TransactionBuffered and then DependencyResolved
\* for transaction 1, tx_submissions eventually holds a row for it; once it has then
\* emitted TransactionExecuted, the transaction is eventually Finalized.
HappyPathLiveness ==
  /\ EmittedAfter("DependencyResolved", "TransactionBuffered", 1)
       ~> (\E k \in 1..Len(tx_submissions) : tx_submissions[k].tx_id = 1)
  /\ (/\ EmittedAfter("DependencyResolved", "TransactionBuffered", 1)
      /\ EmittedAfter("TransactionExecuted", "DependencyResolved", 1))
       ~> (1 \in DOMAIN dependency_graph.transactions
           /\ dependency_graph.transactions[1].state = "Finalized")

(***************************************************************************)
(* Specification SpecFinality: the FinalityTracker of chain 1 under calls  *)
(* of track, is_finalized and check_pending, one call at a time and each   *)
(* from a task of its own, over endpoints that may fail and that report    *)
(* any head                                                                *)
(***************************************************************************)
\* the transaction hashes of a run
Hashes == {1, 2}
\* the largest block number an endpoint reports
MaxHead == 1
\* ChainConfig::confirmation_blocks is drawn from 1..MaxConfirmations
MaxConfirmations == 1

\* the tasks that call the tracker
FinalityTasks == {1, 2}

InitFinality ==
  /\ \E n \in [ListenerChains -> 1..MaxEndpoints] : ListenersNew(n)
  /\ NoSubmitters
  /\ max_retries = MaxRetries
  /\ EngineNew(EmptyMap, [c \in Chains |-> 0])
  /\ \E confirmation_blocks \in 1..MaxConfirmations :
       finality_tracker = FinalityTrackerNew(1, confirmation_blocks)
  /\ finality_call = [t \in FinalityTasks |-> IdleCall]
  /\ provider_call = << >>
  /\ replay = << >>
  /\ gas_call = << >>
  /\ sender_call = << >>
  /\ arrival = << >>
  /\ graph_call = << >>
  /\ tasks = << >>

finality_frame ==
  <<dependency_graph, pending_transactions, nonce_manager, tx_submissions, max_retries,
    tick, submit_count, submitters, nonce_log, returned, chain_blocks, chain_checkpoints,
    last_processed_block, event_bus, event_rx, contract_events, restarts, last_poll, provider_call,
    graph_call, arrival, sender_call, gas_call, replay, tasks>>

\* what the chain holds for a hash: nothing, or a receipt with a status and, once
\* mined, a block number
Receipts ==
  {NoReceipt}
  \cup {Receipt(status, b) : status \in {0, 1}, b \in {NoBlock} \cup (0..MaxHead)}
\* what an endpoint answers when verify_inclusion asks it for a receipt, whose block
\* is not read
CheckReceipts == {RpcFailedReceipt, NoReceipt, Receipt(0, NoBlock), Receipt(1, NoBlock)}

\* task t is in no call
CallerIdle(t) == finality_call[t].pc \in {"idle", "returned"}

SetFinality(t, out) ==
  /\ finality_tracker' = out.ft
  /\ finality_call' = [finality_call EXCEPT ![t] = out.call]

\* a task calls track
F_Track ==
  /\ \E t \in DOMAIN finality_call, tx_hash \in Hashes, block_number \in 0..MaxHead :
       /\ CallerIdle(t)
       /\ SetFinality(t, write_pending(finality_tracker, t,
                                       [NewCall("track", tx_hash)
                                          EXCEPT !.block_number = block_number]))
  /\ UNCHANGED <<finality_frame, chain_provider>>

\* a task calls is_finalized
F_IsFinalized ==
  /\ \E t \in DOMAIN finality_call, tx_hash \in Hashes :
       /\ CallerIdle(t)
       /\ finality_call' = [finality_call EXCEPT
                              ![t] = is_finalized(finality_tracker, chain_provider[1], tx_hash)]
  /\ UNCHANGED <<finality_tracker, finality_frame, chain_provider>>

\* a task calls check_pending
F_CheckPending ==
  /\ \E t \in DOMAIN finality_call :
       /\ CallerIdle(t)
       /\ finality_call' = [finality_call EXCEPT ![t] = check_pending(chain_provider[1])]
  /\ UNCHANGED <<finality_tracker, finality_frame, chain_provider>>

\* what the endpoint asked answers to the request of a call's get_block_number: any
\* head, or the request fails
HeadAnswers(call) ==
  IF call.rpc.pc = "await" THEN {RpcFailed} \cup (0..MaxHead) ELSE {RpcFailed}

\* a step of the get_block_number of a call: the answer to its request, the load
\* or the store of failover(), or the load of http() for the next request
F_BlockNumber ==
  /\ \E t \in DOMAIN finality_call :
       /\ finality_call[t].pc = "eth_blockNumber"
       /\ \E answer \in HeadAnswers(finality_call[t]) :
            \E out \in {finality_block_number(finality_tracker, chain_provider[1], t,
                                              finality_call[t], answer)} :
              /\ SetFinality(t, out)
              /\ chain_provider' = [chain_provider EXCEPT ![1] = out.p]
  /\ UNCHANGED finality_frame

\* the endpoint answers the receipt request of a call, or the request fails; `other`:
\* the endpoints that were not asked would have answered a request that failed
F_Receipt ==
  /\ \E t \in DOMAIN finality_call :
       LET call == finality_call[t]
           p == chain_provider[1]
       IN /\ call.pc = "eth_getTransactionReceipt"
          /\ IF call.op = "is_finalized"
             THEN \E answer \in IF call.tx_block # NoBlock THEN CheckReceipts
                                ELSE {RpcFailedReceipt} \cup Receipts :
                  \E other \in IF p.n > 1 /\ answer.failed THEN BOOLEAN ELSE {FALSE} :
                    SetFinality(t, is_finalized_receipt(
                                     finality_tracker, t,
                                     [call EXCEPT !.answering =
                                        {e \in 0..(p.n - 1) :
                                           IF e = call.endpoint THEN ~answer.failed
                                           ELSE other}],
                                     answer))
             ELSE \E tx_hash \in call.todo, answer \in CheckReceipts :
                    SetFinality(t, check_pending_receipt(finality_tracker, p, t, call,
                                                         tx_hash, answer))
  /\ UNCHANGED <<finality_frame, chain_provider>>

\* the lock of `pending` goes to the task that has waited longest: a reader once no
\* writer is before it, a writer once no read guard is held
F_Lock ==
  /\ \E t \in DOMAIN finality_call :
       LET lock == finality_tracker.pending_lock
           call == finality_call[t]
           ft == [finality_tracker EXCEPT !.pending_lock.queue = Tail(@)]
       IN /\ lock.queue # << >>
          /\ Head(lock.queue) = t
          /\ call.pc = "pending_read" \/ lock.readers = {}
          /\ SetFinality(t,
               CASE call.pc = "pending_write" -> pending_write(ft, t, call)
                 [] call.pc = "pending_read" /\ call.op = "is_finalized" ->
                      is_finalized_pending_read(ft, chain_provider[1], t, call)
                 [] OTHER -> check_pending_pending_read(ft, chain_provider[1], call))
  /\ UNCHANGED <<finality_frame, chain_provider>>

\* `self.finalized.write().await` of a call returns and its statement runs
F_FinalizedWrite ==
  /\ \E t \in DOMAIN finality_call :
       /\ finality_call[t].pc = "finalized_write"
       /\ SetFinality(t, finalized_write(finality_tracker, t, finality_call[t]))
  /\ UNCHANGED <<finality_frame, chain_provider>>

\* a task whose is_finalized waits for the write lock while it holds its read guard
\* is dropped (a timeout around the call, or the end of the runtime): the guard and
\* its place in the queue of the lock go with it
F_Drop ==
  /\ \E t \in DOMAIN finality_call :
       /\ finality_call[t].pc = "pending_write"
       /\ t \in finality_tracker.pending_lock.readers
       /\ finality_tracker' =
            [finality_tracker EXCEPT
               !.pending_lock = [readers |-> @.readers \ {t},
                                 queue |-> SelectSeq(@.queue, LAMBDA x : x # t)]]
       /\ finality_call' = [finality_call EXCEPT ![t] = IdleCall]
  /\ UNCHANGED <<finality_frame, chain_provider>>

NextFinality ==
  F_Track \/ F_IsFinalized \/ F_CheckPending \/ F_BlockNumber \/ F_Receipt \/ F_Lock
    \/ F_FinalizedWrite \/ F_Drop

SpecFinality == InitFinality /\ [][NextFinality]_vars

\* a call of is_finalized that has returned
IsFinalizedReturned(call) == call.op = "is_finalized" /\ call.pc = "returned"

\* C32: get_transaction_receipt fails over like get_block_number and get_logs, so
\* an is_finalized that read the head does not fail with ChainConnection when at
\* least one endpoint answers the receipt request.
ReceiptFailsOver ==
  \A t \in FinalityTasks :
    (/\ IsFinalizedReturned(finality_call[t])
     /\ finality_call[t].current_block # NoBlock
     /\ finality_call[t].answering # {})
      => finality_call[t].res.err # "ChainConnection"

\* C38: is_finalized returns true for a hash that is not in the cache only if the
\* chain holds a receipt with status 1 for it (tracked or not), and for an
\* untracked hash only if that receipt is confirmation_blocks deep.
TrueOnlyWithSuccessReceipt ==
  \A t \in FinalityTasks :
    (/\ IsFinalizedReturned(finality_call[t])
     /\ ~finality_call[t].cached
     /\ finality_call[t].res = FinalityOk(TRUE)) =>
      /\ finality_call[t].receipt.found
      /\ finality_call[t].receipt.status = 1
      /\ finality_call[t].tx_block = NoBlock =>
           /\ finality_call[t].receipt.block_number # NoBlock
           /\ saturating_sub(finality_call[t].current_block,
                             finality_call[t].receipt.block_number)
                >= finality_tracker.confirmation_blocks

\* the step in which task t's is_finalized on a hash that was tracked and not cached
\* returns
TrackedReturn(t) ==
  /\ ~IsFinalizedReturned(finality_call[t])
  /\ IsFinalizedReturned(finality_call'[t])
  /\ finality_call'[t].tx_block # NoBlock

\* the three-way contract of is_finalized at the step in which the call of task t
\* returns, for a depth computed by `depth`
FinalityContract(t, depth_reached) ==
  LET call == finality_call'[t]
      h == call.tx_hash
      receipt == call.receipt
  IN /\ depth_reached /\ ~receipt.failed /\ receipt.found /\ receipt.status = 1
        => /\ call.res = FinalityOk(TRUE)
           /\ h \in DOMAIN finality_tracker'.finalized
           /\ finality_tracker'.finalized[h]
           /\ h \notin DOMAIN finality_tracker'.pending
     /\ depth_reached /\ ~receipt.failed /\ ~(receipt.found /\ receipt.status = 1)
        => /\ call.res = ReorgDetected(finality_tracker.chain_id, call.tx_block)
           /\ finality_tracker'.pending = finality_tracker.pending
           /\ finality_tracker'.finalized = finality_tracker.finalized
     /\ ~depth_reached => call.res = FinalityOk(FALSE)

\* task t's is_finalized on a tracked, uncached hash waits for the read lock of
\* `pending` behind a call that waits for the write lock while it holds a read guard:
\* neither call goes on
TrackedCallStuck(t) ==
  LET lock == finality_tracker.pending_lock
      call == finality_call[t]
  IN /\ call.op = "is_finalized" /\ call.pc = "pending_read"
     /\ call.tx_hash \in DOMAIN finality_tracker.pending
     /\ call.tx_hash \notin DOMAIN finality_tracker.finalized
     /\ \E i, j \in 1..Len(lock.queue) :
          i < j /\ lock.queue[j] = t /\ lock.queue[i] \in lock.readers

\* C16: is_finalized on a tracked, uncached hash finalizes (caches, untracks, returns
\* true) when the depth is at least confirmation_blocks and the receipt has status 1,
\* fails with ReorgDetected{chain_id, tracked_block} and leaves both maps alone when
\* the depth is reached and the receipt is missing or has another status, and returns
\* false when the depth is not reached.  The depth is read as the code computes it,
\* max(current_block - tracked_block, 0): a head below the tracked block counts as
\* depth 0.  A call that does not return does none of the three.
FinalityThreeWaySaturating ==
  [][\A t \in FinalityTasks :
       /\ TrackedReturn(t) =>
            FinalityContract(t, Max(finality_call'[t].current_block
                                      - finality_call'[t].tx_block, 0)
                                  >= finality_tracker.confirmation_blocks)
       /\ ~TrackedCallStuck(t)']_vars

(***************************************************************************)
(* Specification SpecFailover: a chain, its listener and the health check  *)
(* of ChainManager, two tasks that call get_block_number and get_logs on   *)
(* the chain's provider, over endpoints that may fail each request; a      *)
(* request of one task may be in flight while the other task runs; the     *)
(* database accepts every write                                            *)
(***************************************************************************)
\* One call on the provider as history: rpc, where the call stands; n and the index
\* when it was entered; asked, the endpoints its requests were sent to; answers,
\* whether the endpoint answered, for every request that is no longer in flight; the
\* index after the last step of the call.  overlapped: a call of another task on the
\* provider was in progress at some time during the call; of such a call the history
\* keeps only where it stands.
CallLog(p, call) ==
  [rpc |-> call, n |-> p.n, before |-> p.current_provider,
   asked |-> IF call.pc = "await" THEN <<call.endpoint>> ELSE << >>, answers |-> << >>,
   after |-> p.current_provider, overlapped |-> FALSE]
NoCall == [CallLog([n |-> 1, current_provider |-> 0], NoProviderCall) EXCEPT !.n = 1]
\* the call has been entered and has not returned
InProgress(log) == log.rpc.pc \notin {"none", "done"}

\* a step took the call to `call` and the provider to p; the request that was in
\* flight before the step was answered (ok) or failed
CallStep(log, call, p, ok) ==
  IF log.overlapped THEN [log EXCEPT !.rpc = call]
  ELSE [log EXCEPT !.rpc = call, !.after = p.current_provider,
                   !.asked = IF log.rpc.pc = "http" THEN Append(@, call.endpoint) ELSE @,
                   !.answers = IF log.rpc.pc = "await" THEN Append(@, ok) ELSE @]

\* a call of another task ran beside the call
Overlapped(log) == [NoCall EXCEPT !.rpc = log.rpc, !.n = log.n, !.overlapped = TRUE]
\* the call is entered while `other` may be in progress
CallBeside(log, other) == IF InProgress(other) THEN Overlapped(log) ELSE log
\* a call of another task is entered
Beside(log) == IF InProgress(log) THEN Overlapped(log) ELSE log

InitFailover ==
  /\ \E n \in [ListenerChains -> 1..MaxEndpoints] : ListenersNew(n)
  /\ NoSubmitters
  /\ max_retries = MaxRetries
  /\ EngineNew(EmptyMap, [c \in Chains |-> 0])
  /\ NoFinality
  /\ provider_call = [c \in ListenerChains |->
                         [head |-> NoCall, logs |-> NoCall, health |-> NoCall]]
  /\ replay = << >>
  /\ gas_call = << >>
  /\ sender_call = << >>
  /\ arrival = << >>
  /\ graph_call = << >>
  /\ tasks = << >>

failover_frame ==
  <<dependency_graph, pending_transactions, nonce_manager, tx_submissions, max_retries,
    tick, submit_count, submitters, nonce_log, returned, restarts, finality_tracker,
    finality_call, graph_call, arrival, sender_call, gas_call, replay, tasks>>

\* the blocks the chain of SpecFailover grows to
FailoverBlocks == 1

FO_Mine ==
  /\ \E c \in ListenerChains : MineBlockOf(c, ListenerTopics, 1, FailoverBlocks)
  /\ UNCHANGED <<chain_checkpoints, last_processed_block, event_bus, event_rx, contract_events,
                 chain_provider, last_poll, provider_call, failover_frame>>

\* one step of the listener task; the calls it makes on the provider are recorded as
\* get_block_number and get_logs step them
FO_Poll ==
  /\ \E c \in ListenerChains :
       \E env \in PollEnvsOf(c, FALSE) :
         \E l \in {listen_polling(Listener(c), c, chain_blocks[c], env)} :
           LET poll == last_poll[c]
               head == get_block_number(chain_provider[c], poll.rpc, env.block_number)
               logs == get_logs(chain_provider[c], poll.rpc, env.logs_ok,
                                EthGetLogs(chain_blocks[c], poll.from_block, poll.to_block))
           IN /\ SetListener(c, l)
              /\ provider_call' =
                   [provider_call EXCEPT
                      ![c] = CASE poll.pc = "get_block_number" ->
                                    [head |-> CallBeside(CallLog(chain_provider[c], l.poll.rpc),
                                                         @.health),
                                     logs |-> NoCall,
                                     health |-> Beside(@.health)]
                               [] poll.pc = "eth_blockNumber" ->
                                    [head |-> CallStep(@.head, head.call, head.p,
                                                       env.block_number # RpcFailed),
                                     logs |-> IF l.poll.pc = "eth_getLogs"
                                              THEN CallBeside(CallLog(l.provider, l.poll.rpc),
                                                              @.health)
                                              ELSE NoCall,
                                     health |-> IF l.poll.pc = "eth_getLogs"
                                                THEN Beside(@.health) ELSE @.health]
                               [] poll.pc = "eth_getLogs" ->
                                    [@ EXCEPT !.logs = CallStep(@, logs.call, logs.p,
                                                                env.logs_ok)]
                               [] OTHER -> @]
  /\ UNCHANGED <<chain_blocks, failover_frame>>

\* what the endpoint asked answers to the request of the health check: the head, or
\* the request fails
HealthAnswers(c) ==
  IF provider_call[c].health.rpc.pc = "await"
  THEN {RpcFailed, BlockNumber(chain_blocks[c])} ELSE {RpcFailed}

\* ChainManager::health_check, which main's health task and the API call: for every
\* chain, provider.health_check() = get_block_number().is_ok() on the provider the
\* listener uses.  One step of the task: the call is entered and sends its first
\* request, or get_block_number takes a step.
FO_HealthCheck ==
  /\ \E c \in ListenerChains :
       LET log == provider_call[c].health
           p == chain_provider[c]
       IN IF ~InProgress(log)
          THEN /\ provider_call' =
                    [provider_call EXCEPT
                       ![c] = [head |-> Beside(@.head), logs |-> Beside(@.logs),
                               health |-> IF InProgress(@.head)
                                          THEN CallBeside(CallLog(p, provider_enter(p)), @.head)
                                          ELSE CallBeside(CallLog(p, provider_enter(p)), @.logs)]]
               /\ chain_provider' = chain_provider
          ELSE \E answer \in HealthAnswers(c) :
                 \E head \in {get_block_number(p, log.rpc, answer)} :
                   /\ chain_provider' = [chain_provider EXCEPT ![c] = head.p]
                   /\ provider_call' =
                        [provider_call EXCEPT
                           ![c].health = CallStep(log, head.call, head.p,
                                                  answer # RpcFailed)]
  /\ UNCHANGED <<chain_blocks, chain_checkpoints, last_processed_block, event_bus, event_rx,
                 contract_events, last_poll, failover_frame>>

NextFailover == FO_Mine \/ FO_Poll \/ FO_HealthCheck

SpecFailover == InitFailover /\ [][NextFailover]_vars

\* the requests of the call that failed
Failed(log) == Cardinality({i \in 1..Len(log.answers) : ~log.answers[i]})

\* the contract of a call with failover that no other call ran beside: at most n
\* requests, the first to the active endpoint; every failed request moves the index
\* by one modulo n; the call returns Ok with the request that is answered, the index
\* at the endpoint that answered, and ChainConnection once n requests have failed
FailoverContract(log) ==
  (log.rpc.pc # "none" /\ ~log.overlapped) =>
    LET done == log.rpc.pc = "done"
        res == log.rpc.res
    IN /\ Len(log.asked) <= log.n
       /\ Len(log.answers) = IF log.rpc.pc = "await" THEN Len(log.asked) - 1
                              ELSE Len(log.asked)
       /\ \A i \in 1..Len(log.asked) : log.asked[i] = (log.before + i - 1) % log.n
       /\ log.rpc.pc \in {"http", "await", "done"} =>
            log.after = (log.before + Failed(log)) % log.n
       /\ \A i \in 1..Len(log.answers) :
            log.answers[i] => i = Len(log.answers) /\ done /\ res.ok
       /\ done /\ res.ok => /\ log.answers[Len(log.answers)]
                             /\ log.after = log.asked[Len(log.asked)]
       /\ done /\ ~res.ok => /\ res.err = "ChainConnection"
                              /\ Failed(log) = log.n

\* the positions of the logs from the i-th on, in the order of the sequence
RECURSIVE WindowPositions(_, _)
WindowPositions(logs, i) ==
  IF i > Len(logs) THEN << >>
  ELSE <<(<<logs[i].block_number, logs[i].log_index>>)>> \o WindowPositions(logs, i + 1)

\* C17: every call of get_block_number and get_logs that no other task's call ran
\* beside asks the active endpoint first, moves the index by one modulo N after every
\* failed request, makes at most N requests, succeeds if an endpoint answers and fails
\* with ChainConnection otherwise; and after an iteration whose get_logs succeeded on
\* a later endpoint, last_processed_block and the checkpoint are the window's
\* to_block, the window starts after the last processed block, and contract_events
\* holds the event of every log up to to_block once, in the order of the chain.
FailoverKeepsWindow ==
  \A c \in ListenerChains :
    /\ FailoverContract(provider_call[c].head)
    /\ FailoverContract(provider_call[c].logs)
    /\ FailoverContract(provider_call[c].health)
    /\ (last_poll[c].outcome = "ok" /\ last_poll[c].failed_over) =>
         /\ last_processed_block[c] = last_poll[c].to_block
         /\ c \in DOMAIN chain_checkpoints
         /\ chain_checkpoints[c] = last_poll[c].to_block
         /\ [i \in 1..Len(contract_events) |-> EventPosition(contract_events[i].event_data)]
              = WindowPositions(EthGetLogs(chain_blocks[c], 1, last_poll[c].to_block), 1)

\* get_logs, with no call beside it, was answered by the second endpoint after the
\* first failed, and the window held logs; a health check on its own had asked both
\* endpoints before
FailoverKeepsWindowWitness ==
  \E c \in ListenerChains :
    /\ last_poll[c].outcome = "ok" /\ last_poll[c].failed_over
    /\ provider_call[c].logs.rpc.pc = "done" /\ provider_call[c].logs.rpc.res.ok
    /\ ~provider_call[c].logs.overlapped
    /\ Len(provider_call[c].logs.asked) = 2
    /\ provider_call[c].logs.after # provider_call[c].logs.before
    /\ provider_call[c].health.rpc.pc = "done" /\ ~provider_call[c].health.rpc.res.ok
    /\ ~provider_call[c].health.overlapped
    /\ Len(provider_call[c].health.asked) = 2
    /\ \E i \in 1..Len(contract_events) :
         contract_events[i].event_data.block_number >= last_poll[c].from_block

(***************************************************************************)
(* Specification SpecStore: the four relations of the StateManager under   *)
(* its writes; every write is recorded together with the relations that a  *)
(* second execution of the same statement would leave                      *)
(***************************************************************************)
Relations(checkpoints, pending, events, submissions) ==
  [chain_checkpoints |-> checkpoints, pending_transactions |-> pending,
   contract_events |-> events, tx_submissions |-> submissions]

InitStore ==
  /\ NoListeners
  /\ NoSubmitters
  /\ max_retries = MaxRetries
  /\ EngineNew(EmptyMap, [c \in Chains |-> 0])
  /\ NoFinality
  /\ provider_call = << >>
  /\ replay = [op |-> "none", twice |-> Relations(EmptyMap, EmptyMap, << >>, << >>)]
  /\ gas_call = << >>
  /\ sender_call = << >>
  /\ arrival = << >>
  /\ graph_call = << >>
  /\ tasks = << >>

store_frame ==
  <<dependency_graph, nonce_manager, max_retries, tick, submit_count, submitters,
    nonce_log, returned, chain_blocks, last_processed_block, event_bus, event_rx, restarts,
    chain_provider, last_poll, finality_tracker, finality_call, provider_call,
    graph_call,
    arrival,
    sender_call,
    gas_call, tasks>>

\* the arguments of the writes
StoreTxs ==
  {PendingTransaction(t, 1, 1, NoneId, NoneId, st, 1) :
     t \in TxIds, st \in {"Buffered", "Ready"}}
StoreEvents ==
  {parse_log([chain_id |-> c], Log(1, 0, "TransactionBuffered", 1)) : c \in Chains}
StoreHashes == {"0xaa"}

ST_SaveCheckpoint ==
  /\ \E chain_id \in Chains, block_number \in 0..MaxHead :
       \E once \in {save_checkpoint(chain_checkpoints, chain_id, block_number)} :
         /\ chain_checkpoints' = once
         /\ replay' = [op |-> "save_checkpoint",
                       twice |-> Relations(save_checkpoint(once, chain_id, block_number),
                                           pending_transactions, contract_events,
                                           tx_submissions)]
  /\ UNCHANGED <<pending_transactions, contract_events, tx_submissions, store_frame>>

ST_StorePendingTransaction ==
  /\ \E tx \in StoreTxs, db_now \in EventTimes :
       \E once \in {store_pending_transaction(pending_transactions, tx, db_now)} :
         /\ pending_transactions' = once
         /\ replay' = [op |-> "store_pending_transaction",
                       twice |-> Relations(chain_checkpoints,
                                           store_pending_transaction(once, tx, db_now),
                                           contract_events, tx_submissions)]
  /\ UNCHANGED <<chain_checkpoints, contract_events, tx_submissions, store_frame>>

ST_StoreEvent ==
  /\ Len(contract_events) < MaxRows
  /\ \E event \in StoreEvents :
       \E once \in {store_event(contract_events, event)} :
         /\ contract_events' = once
         /\ replay' = [op |-> "store_event",
                       twice |-> Relations(chain_checkpoints, pending_transactions,
                                           store_event(once, event), tx_submissions)]
  /\ UNCHANGED <<chain_checkpoints, pending_transactions, tx_submissions, store_frame>>

ST_RecordSubmission ==
  /\ Len(tx_submissions) < MaxRows
  /\ \E tx_id \in TxIds, chain_id \in Chains, hash \in StoreHashes :
       \E once \in {record_submission(tx_submissions, tx_id, chain_id, hash)} :
         /\ tx_submissions' = once
         /\ replay' = [op |-> "record_submission",
                       twice |-> Relations(chain_checkpoints, pending_transactions,
                                           contract_events,
                                           record_submission(once, tx_id, chain_id, hash))]
  /\ UNCHANGED <<chain_checkpoints, pending_transactions, contract_events, store_frame>>

\* the statuses written and the clock of the database server
SubmissionStatuses == {"confirmed", "failed"}
StoreTimes == {1}

\* the second execution runs at the same time or later
ST_UpdateSubmissionStatus ==
  /\ \E hash \in StoreHashes, status \in SubmissionStatuses, now \in StoreTimes :
       \E once \in {update_submission_status(tx_submissions, hash, status, now)} :
         /\ tx_submissions' = once
         /\ \E later \in {now, now + 1} :
              replay' = [op |-> "update_submission_status",
                         twice |-> Relations(chain_checkpoints, pending_transactions,
                                             contract_events,
                                             update_submission_status(once, hash, status,
                                                                      later))]
  /\ UNCHANGED <<chain_checkpoints, pending_transactions, contract_events, store_frame>>

NextStore ==
  \/ ST_SaveCheckpoint
  \/ ST_StorePendingTransaction
  \/ ST_StoreEvent
  \/ ST_RecordSubmission
  \/ ST_UpdateSubmissionStatus

SpecStore == InitStore /\ [][NextStore]_vars

\* C19: after any write of the StateManager, executing the same write a second time
\* with the same arguments leaves the four relations as the first execution left
\* them.
ReplayIdempotent ==
  replay.op # "none" =>
    replay.twice = Relations(chain_checkpoints, pending_transactions, contract_events,
                             tx_submissions)

(***************************************************************************)
(* Specification SpecShutdown: main, the listener tasks spawned by         *)
(* start_listeners and the engine's run loop, with every RPC, database and *)
(* sleep call completing                                                   *)
(***************************************************************************)
\* main has spawned the task of start_listeners, which spawns one task for each
\* listener, and the task of engine.run.  ChainManager::new has parsed the contract
\* address of every chain it made a listener for (EventParser::new).  engine_abort:
\* abort() was called on the handle of engine.run.
TasksNew ==
  [main |-> "running", engine_shutdown |-> FALSE, manager_shutdown |-> FALSE,
   engine_abort |-> FALSE,
   listener |-> [c \in ListenerChains |-> "check"], engine |-> "start"]

InitShutdown ==
  /\ NoListeners
  /\ NoSubmitters
  /\ max_retries = MaxRetries
  /\ EngineNew(EmptyMap, [c \in Chains |-> 0])
  /\ NoFinality
  /\ provider_call = << >>
  /\ replay = << >>
  /\ gas_call = << >>
  /\ sender_call = << >>
  /\ arrival = << >>
  /\ graph_call = << >>
  /\ tasks = TasksNew

shutdown_frame ==
  <<nonce_manager, tx_submissions, max_retries, tick, submit_count, submitters,
    nonce_log, returned, restarts, finality_tracker, finality_call, provider_call,
    graph_call, arrival, sender_call, gas_call, replay>>
shutdown_listener_frame ==
  <<chain_checkpoints, last_processed_block, event_bus, event_rx, contract_events,
    chain_provider, last_poll>>

SD_Mine ==
  /\ \E c \in ListenerChains : MineBlockOf(c, ListenerTopics, 1, MaxBlocks)
  /\ UNCHANGED <<tasks, dependency_graph, pending_transactions, shutdown_listener_frame,
                 shutdown_frame>>

\* main after the shutdown signal: coordination_engine.stop(), then chain_manager.stop()
SD_StopEngine ==
  /\ tasks.main = "running"
  /\ tasks' = [tasks EXCEPT !.main = "engine_stopped", !.engine_shutdown = TRUE]
  /\ UNCHANGED <<chain_blocks, dependency_graph, pending_transactions,
                 shutdown_listener_frame, shutdown_frame>>

SD_StopManager ==
  /\ tasks.main = "engine_stopped"
  /\ tasks' = [tasks EXCEPT !.main = "manager_stopped", !.manager_shutdown = TRUE]
  /\ UNCHANGED <<chain_blocks, dependency_graph, pending_transactions,
                 shutdown_listener_frame, shutdown_frame>>

\* main then calls abort() on the handles it holds.  JoinHandle::abort asks the
\* runtime to cancel the task and returns: the task of engine.run lives on until the
\* runtime cancels it.  The abort of start_listeners drops its join_all; the tasks
\* start_listeners spawned for the listeners are detached and run on.
SD_Abort ==
  /\ tasks.main = "manager_stopped"
  /\ tasks' = [tasks EXCEPT !.main = "aborted", !.engine_abort = TRUE]
  /\ UNCHANGED <<chain_blocks, dependency_graph, pending_transactions,
                 shutdown_listener_frame, shutdown_frame>>

\* the task of engine.run is dropped at the await it is at: its receiver event_rx and
\* what was queued for it go with its future
engine_cancelled(engine) == IF engine = "returned" THEN engine ELSE "aborted"

\* the runtime cancels the task of engine.run, which main has aborted
SD_EngineCancel ==
  /\ tasks.engine_abort
  /\ tasks.engine \notin {"returned", "aborted"}
  /\ tasks' = [tasks EXCEPT !.engine = engine_cancelled(@)]
  /\ event_rx' = << >>
  /\ event_bus' = << >>
  /\ UNCHANGED <<chain_blocks, chain_checkpoints, last_processed_block, contract_events,
                 chain_provider, last_poll, dependency_graph, pending_transactions,
                 shutdown_frame>>

\* main returns: the runtime of #[tokio::main] is dropped, which cancels every task
\* that is left at the await it is at
SD_Return ==
  /\ tasks.main = "aborted"
  /\ tasks' = [tasks EXCEPT !.main = "returned",
                            !.engine = engine_cancelled(@),
                            !.listener = [c \in ListenerChains |->
                                            IF @[c] = "exited" THEN @[c] ELSE "cancelled"]]
  /\ event_rx' = << >>
  /\ event_bus' = << >>
  /\ UNCHANGED <<chain_blocks, chain_checkpoints, last_processed_block, contract_events,
                 chain_provider, last_poll, dependency_graph, pending_transactions,
                 shutdown_frame>>

\* the spawned task: `if *shutdown.read().await { break; }`
SD_ListenerCheck(c) ==
  /\ tasks.listener[c] = "check"
  /\ tasks' = [tasks EXCEPT !.listener[c] = IF tasks.manager_shutdown THEN "exited"
                                            ELSE "listen"]
  /\ UNCHANGED <<chain_blocks, dependency_graph, pending_transactions,
                 shutdown_listener_frame, shutdown_frame>>

\* listener.listen() up to the loop of listen_polling: provider.ws(), then the parse
\* of the contract address, which succeeded in ChainManager::new and succeeds here
SD_Listen(c) ==
  /\ tasks.listener[c] = "listen"
  /\ tasks' = [tasks EXCEPT !.listener[c] = "poll"]
  /\ UNCHANGED <<chain_blocks, dependency_graph, pending_transactions,
                 shutdown_listener_frame, shutdown_frame>>

\* one step of the loop of listen_polling; the loop has no exit and does not read the
\* shutdown flag
SD_Poll(c) ==
  /\ tasks.listener[c] = "poll"
  /\ \E env \in {HappyPoll(chain_blocks[c])} :
       \E l \in {listen_polling(Listener(c), c, chain_blocks[c], env)} : SetListener(c, l)
  /\ UNCHANGED <<tasks, chain_blocks, restarts, dependency_graph, pending_transactions,
                 nonce_manager, tx_submissions, max_retries, tick, submit_count,
                 submitters, nonce_log, returned, finality_tracker, finality_call,
                 provider_call, graph_call, arrival, sender_call, gas_call, replay>>

\* CoordinationEngine::run before its loop: subscribe_events()
SD_EngineSubscribe ==
  /\ tasks.engine = "start"
  /\ tasks' = [tasks EXCEPT !.engine = "check"]
  /\ event_rx' = Append(event_rx, "engine")
  /\ UNCHANGED <<chain_blocks, chain_checkpoints, last_processed_block, event_bus,
                 contract_events, chain_provider, last_poll, dependency_graph,
                 pending_transactions, shutdown_frame>>

\* CoordinationEngine::run: `if *self.shutdown.read().await { break; }`; after the
\* break run returns, which drops its receiver event_rx and what was queued for it
SD_EngineCheck ==
  /\ tasks.engine = "check"
  /\ tasks' = [tasks EXCEPT !.engine = IF tasks.engine_shutdown THEN "returned"
                                       ELSE "select"]
  /\ event_rx' = IF tasks.engine_shutdown THEN << >> ELSE event_rx
  /\ event_bus' = IF tasks.engine_shutdown THEN << >> ELSE event_bus
  /\ UNCHANGED <<chain_blocks, chain_checkpoints, last_processed_block, contract_events,
                 chain_provider, last_poll, dependency_graph, pending_transactions,
                 shutdown_frame>>

\* one branch of select!: an event of the channel is handled, or a timer fires over
\* a graph without Ready transactions
SD_EngineSelect ==
  /\ tasks.engine = "select"
  /\ tasks' = [tasks EXCEPT !.engine = "check"]
  /\ \/ /\ event_bus # << >>
        /\ \E db_now \in EventTimes :
             \E st \in {handle_event([graph |-> dependency_graph,
                                      rows |-> pending_transactions],
                                     Head(event_bus), TRUE, db_now)} :
               /\ dependency_graph' = st.graph
               /\ pending_transactions' = st.rows
        /\ event_bus' = Tail(event_bus)
     \/ /\ \A chain \in Chains : get_ready_for_chain(dependency_graph, chain) = {}
        /\ UNCHANGED <<dependency_graph, pending_transactions, event_bus>>
  /\ UNCHANGED <<chain_blocks, chain_checkpoints, last_processed_block, event_rx,
                 contract_events, chain_provider, last_poll, shutdown_frame>>

NextShutdown ==
  \/ SD_Mine
  \/ SD_StopEngine
  \/ SD_StopManager
  \/ SD_Abort
  \/ SD_EngineCancel
  \/ SD_Return
  \/ \E c \in ListenerChains : SD_ListenerCheck(c)
  \/ \E c \in ListenerChains : SD_Listen(c)
  \/ \E c \in ListenerChains : SD_Poll(c)
  \/ SD_EngineSubscribe
  \/ SD_EngineCheck
  \/ SD_EngineSelect

\* every task keeps running while it lives: its awaits complete; once the shutdown
\* signal has come main runs to its return
SpecShutdown ==
  /\ InitShutdown
  /\ [][NextShutdown]_vars
  /\ \A c \in ListenerChains :
       WF_vars(SD_ListenerCheck(c)) /\ WF_vars(SD_Listen(c)) /\ WF_vars(SD_Poll(c))
  /\ WF_vars(SD_EngineSubscribe) /\ WF_vars(SD_EngineCheck) /\ WF_vars(SD_EngineSelect)
  /\ WF_vars(SD_StopManager) /\ WF_vars(SD_Abort) /\ WF_vars(SD_EngineCancel)
  /\ WF_vars(SD_Return)

\* C20: once ChainManager::stop has set the shutdown flag, every listener task
\* eventually leaves its loop and the engine's run loop eventually returns.
ShutdownObserved ==
  tasks.manager_shutdown ~>
    (/\ \A c \in ListenerChains : tasks.listener[c] = "exited"
     /\ tasks.engine = "returned")

(***************************************************************************)
(* Specification SpecGraph: a DependencyGraph under any sequence of calls  *)
(* of add_transaction, mark_ready, mark_submitted, mark_finalized,         *)
(* mark_failed and cleanup                                                 *)
(***************************************************************************)
StatesOf(g) == [t \in DOMAIN g.transactions |-> g.transactions[t].state]

\* the last call made on the graph; for mark_finalized, whose effect on a waiter
\* depends on the waiter's state, also the state every tracked transaction had
\* when the call was made
GraphCall(op, tx_id, now, before) ==
  [op |-> op, tx_id |-> tx_id, now |-> now, before |-> before]

InitGraph ==
  /\ NoListeners
  /\ NoSubmitters
  /\ max_retries = MaxRetries
  /\ EngineNew(EmptyMap, [c \in Chains |-> 0])
  /\ NoFinality
  /\ provider_call = << >>
  /\ replay = << >>
  /\ gas_call = << >>
  /\ sender_call = << >>
  /\ arrival = << >>
  /\ tasks = << >>
  /\ graph_call = GraphCall("new", NoneId, 0, EmptyMap)

graph_frame ==
  <<pending_transactions, nonce_manager, tx_submissions, max_retries, tick, submit_count,
    submitters, nonce_log, returned, listener_vars, finality_tracker, finality_call,
    provider_call, arrival, sender_call, gas_call, replay, tasks>>

\* the records add_transaction is called with: a transaction may wait on the other
\* transaction and may belong to the swap group
GraphTxs ==
  {PendingTransaction(t, 1, 1, dep, grp, st, 1) :
     t \in TxIds, dep \in {NoneId} \cup TxIds, grp \in {NoneId} \cup GroupIds,
     st \in {"Buffered", "DependencyPending", "Ready"}}

G_AddTransaction ==
  /\ \E tx \in GraphTxs :
       /\ dependency_graph' = add_transaction(dependency_graph, tx)
       /\ graph_call' = GraphCall("add_transaction", tx.tx_id, 0, EmptyMap)
  /\ UNCHANGED graph_frame

G_MarkReady ==
  /\ \E tx_id \in TxIds :
       /\ dependency_graph' = mark_ready(dependency_graph, tx_id)
       /\ graph_call' = GraphCall("mark_ready", tx_id, 0, EmptyMap)
  /\ UNCHANGED graph_frame

G_MarkSubmitted ==
  /\ \E tx_id \in TxIds :
       /\ dependency_graph' = mark_submitted(dependency_graph, tx_id)
       /\ graph_call' = GraphCall("mark_submitted", tx_id, 0, EmptyMap)
  /\ UNCHANGED graph_frame

G_MarkFinalized ==
  /\ \E tx_id \in TxIds :
       /\ dependency_graph' = mark_finalized(dependency_graph, tx_id)
       /\ graph_call' = GraphCall("mark_finalized", tx_id, 0, StatesOf(dependency_graph))
  /\ UNCHANGED graph_frame

G_MarkFailed ==
  /\ \E tx_id \in TxIds :
       /\ dependency_graph' = mark_failed(dependency_graph, tx_id)
       /\ graph_call' = GraphCall("mark_failed", tx_id, 0, EmptyMap)
  /\ UNCHANGED graph_frame

\* cleanup(86400) at the wall clock `now`.  With overflow checks (a debug build) a
\* created_at later than now panics in the filter and nothing is removed.
G_Cleanup ==
  /\ \E now \in CleanupTimes, overflow_checks \in BOOLEAN :
       IF overflow_checks /\ CleanupOverflows(dependency_graph, now)
       THEN /\ UNCHANGED dependency_graph
            /\ graph_call' = GraphCall("cleanup_panicked", NoneId, now, EmptyMap)
       ELSE /\ dependency_graph' = cleanup(dependency_graph, 86400, now)
            /\ graph_call' = GraphCall("cleanup", NoneId, now, EmptyMap)
  /\ UNCHANGED graph_frame

NextGraph ==
  \/ G_AddTransaction
  \/ G_MarkReady
  \/ G_MarkSubmitted
  \/ G_MarkFinalized
  \/ G_MarkFailed
  \/ G_Cleanup

SpecGraph == InitGraph /\ [][NextGraph]_vars

(***************************************************************************)
(* Specification SpecOrder: the engine handles two events about one        *)
(* transaction that come from the listeners of two different chains; the   *)
(* bus delivers them in either order                                       *)
(***************************************************************************)
NoEvent == ContractEvent("Unknown", NoneId, NoneId, NoneId, 0)
NoArrival == [phase |-> "none", first |-> NoEvent, second |-> NoEvent,
              start |-> NewGraph, swapped |-> NewGraph]

InitOrder ==
  /\ NoListeners
  /\ NoSubmitters
  /\ max_retries = MaxRetries
  /\ \E rows \in InitDb : EngineNew(rows, [c \in Chains |-> 0])
  /\ NoFinality
  /\ provider_call = << >>
  /\ replay = << >>
  /\ gas_call = << >>
  /\ sender_call = << >>
  /\ tasks = << >>
  /\ graph_call = << >>
  /\ arrival = NoArrival

order_frame ==
  <<nonce_manager, tx_submissions, max_retries, tick, submit_count, submitters, nonce_log,
    returned, listener_vars, finality_tracker, finality_call, provider_call, graph_call,
    sender_call, gas_call, replay, tasks>>

\* TransactionBuffered comes from the origin chain, chain 1; the other events about
\* a transaction come from either chain
OrderEvents ==
  {ContractEvent("TransactionBuffered", c, t, NoneId, ts) :
      c \in EventChains, t \in TxIds, ts \in EventTimes}
  \cup {ContractEvent(n, c, t, NoneId, 0) :
      n \in {"TransactionReady", "TransactionExecuted", "TransactionFailed"},
      c \in Chains, t \in TxIds}
  \cup {ContractEvent("DependencyResolved", c, t, d, 0) :
      c \in Chains, t \in TxIds, d \in TxIds}

\* the graph after handle_event(first) and then handle_event(second)
HandleBoth(g, rows, first, second) ==
  handle_event(handle_event([graph |-> g, rows |-> rows], first, TRUE, 1),
               second, TRUE, 1).graph

\* handle_event of the event that arrives first
O_First ==
  /\ arrival.phase # "first"
  /\ \E ev \in OrderEvents, db_ok \in BOOLEAN, db_now \in EventTimes :
       LET st == handle_event([graph |-> dependency_graph, rows |-> pending_transactions],
                              ev, db_ok, db_now)
       IN /\ dependency_graph' = st.graph
          /\ pending_transactions' = st.rows
          /\ arrival' = [NoArrival EXCEPT !.phase = "first", !.first = ev,
                                          !.start = dependency_graph]
  /\ UNCHANGED order_frame

\* handle_event of an event about the same transaction from another chain
O_Second ==
  /\ arrival.phase = "first"
  /\ \E ev \in OrderEvents, db_ok \in BOOLEAN, db_now \in EventTimes :
       /\ ev.tx_id = arrival.first.tx_id
       /\ ev.chain_id # arrival.first.chain_id
       /\ LET st == handle_event([graph |-> dependency_graph,
                                  rows |-> pending_transactions], ev, db_ok, db_now)
          IN /\ dependency_graph' = st.graph
             /\ pending_transactions' = st.rows
             /\ arrival' = [arrival EXCEPT
                              !.phase = "both", !.second = ev,
                              !.swapped = HandleBoth(arrival.start, pending_transactions,
                                                     ev, arrival.first)]
  /\ UNCHANGED order_frame

NextOrder ==
  \/ O_First
  \/ O_Second

SpecOrder == InitOrder /\ [][NextOrder]_vars

(***************************************************************************)
(* Specification SpecFees: ChainProvider::get_gas_price of a provider       *)
(* configured with any strategy and any max_gas_price_gwei, for every       *)
(* answer of the node                                                       *)
(***************************************************************************)
\* base_fee_per_gas of the latest block
BaseFees == {0, 1, Gwei, Gwei + 1, 2 * Gwei, 3 * Gwei}
LatestBlocks ==
  {LatestBlock(TRUE, FALSE, FALSE, 0), LatestBlock(FALSE, FALSE, FALSE, 0),
   LatestBlock(FALSE, TRUE, FALSE, 0)}
  \cup {LatestBlock(FALSE, TRUE, TRUE, b) : b \in BaseFees}

\* the provider's configuration, the node's answers and the result
GasCall(strategy, cap_gwei, node_price, block, out) ==
  [gas_price_strategy |-> strategy, max_gas_price_gwei |-> cap_gwei,
   node_price |-> node_price, block |-> block, out |-> out]

InitFees ==
  /\ NoListeners
  /\ NoSubmitters
  /\ max_retries = MaxRetries
  /\ EngineNew(EmptyMap, [c \in Chains |-> 0])
  /\ NoFinality
  /\ provider_call = << >>
  /\ replay = << >>
  /\ tasks = << >>
  /\ graph_call = << >>
  /\ arrival = << >>
  /\ sender_call = << >>
  /\ \E strategy \in GasPriceStrategy, cap_gwei \in 0..MaxGasPriceGwei :
       gas_call = GasCall(strategy, cap_gwei, RpcFailed, LatestBlock(TRUE, FALSE, FALSE, 0),
                          [ok |-> FALSE, err |-> "none", val |-> NoGasPrice])

fees_frame ==
  <<dependency_graph, pending_transactions, nonce_manager, tx_submissions, max_retries,
    tick, submit_count, submitters, nonce_log, returned, listener_vars, finality_tracker,
    finality_call, provider_call, graph_call, arrival, sender_call, replay, tasks>>

\* the estimator's wrapper adds its buffer to what the provider returns; the call
\* recorded is the provider's
GP_GetGasPrice ==
  /\ \E node_price \in NodeGasPrices \cup {RpcFailed}, block \in LatestBlocks :
       gas_call' = GasCall(gas_call.gas_price_strategy, gas_call.max_gas_price_gwei,
                           node_price, block,
                           provider_get_gas_price(gas_call.gas_price_strategy,
                                                  gas_call.max_gas_price_gwei,
                                                  node_price, block))
  /\ UNCHANGED fees_frame

NextFees == GP_GetGasPrice

SpecFees == InitFees /\ [][NextFees]_vars

(***************************************************************************)
(* Specification SpecRetry: the tasks of SpecSender for every max_retries, *)
(* every answer to an attempt and gas prices of both kinds that change     *)
(* between the building of a transaction and its speed_up; sender_call     *)
(* keeps the last call that returned                                       *)
(***************************************************************************)
\* what eth_gasPrice answers on a Legacy chain
RetryNodePrices == {80, 100}

\* what provider.get_gas_price() returns in SpecRetry, whose chain has the Legacy
\* strategy: an error, or the node's price
RetryGasPrices == LegacyGasPrices(RetryNodePrices)

\* the calls the tasks of SpecRetry make in all
RetryCalls == 3

\* what eth_getTransactionCount answers to the sync after "nonce too low"
RetryOnChain == {RpcFailed, 1}

InitRetry ==
  /\ max_retries \in 0..MaxRetries
  /\ nonce_manager = InitChains(NewNonceManager, SenderChains, [c \in SenderChains |-> 0])
  /\ tx_submissions = << >>
  /\ submitters = [p \in Submitters |-> IdleSubmitter]
  /\ nonce_log = << >>
  /\ returned = {}
  /\ NoListeners
  /\ NoFinality
  /\ provider_call = << >>
  /\ replay = << >>
  /\ gas_call = << >>
  /\ tasks = << >>
  /\ graph_call = << >>
  /\ arrival = << >>
  /\ sender_call = NoSenderCall
  /\ dependency_graph = NewGraph
  /\ pending_transactions = EmptyMap
  /\ tick = IdleTick
  /\ submit_count = [t \in TxIds |-> 0]

NextRetry ==
  \/ \E p \in Submitters : S_GetNonce(p, RetryCalls)
  \/ \E p \in Submitters : S_SpeedUp(p, RetryCalls)
  \/ \E p \in Submitters : S_GasPrice(p, RetryGasPrices)
  \/ \E p \in Submitters : S_Attempt(p, AttemptResults)
  \/ \E p \in Submitters : S_Sync(p, RetryOnChain)
  \/ \E p \in Submitters : S_Release(p)
  \/ \E p \in Submitters : S_MarkPending(p)
  \/ \E p \in Submitters : S_Record(p)

SpecRetry == InitRetry /\ [][NextRetry]_vars


(***************************************************************************)
(* Specification SpecCache: cleanup_cache on a FinalityTracker whose cache *)
(* of finalized hashes has any size                                        *)
(***************************************************************************)
\* the cache holds up to MaxCacheSize hashes
MaxCacheSize == 4
\* max_entries is drawn from 0..MaxCacheEntries
MaxCacheEntries == 2

InitCache ==
  /\ NoListeners
  /\ NoSubmitters
  /\ max_retries = MaxRetries
  /\ EngineNew(EmptyMap, [c \in Chains |-> 0])
  /\ finality_tracker = FinalityTrackerNew(1, 0)
  /\ finality_call = [t \in {1} |-> IdleCall]
  /\ provider_call = << >>
  /\ replay = << >>
  /\ tasks = << >>
  /\ graph_call = << >>
  /\ arrival = << >>
  /\ sender_call = << >>
  /\ gas_call = << >>

\* the task calls cleanup_cache, which holds the write lock of `finalized` from its
\* first statement to its last
CC_CleanupCache ==
  /\ CallerIdle(1)
  /\ \E max_entries \in 0..MaxCacheEntries, first_keys \in FirstKeys(finality_tracker) :
       /\ finality_tracker' = cleanup_cache(finality_tracker, max_entries, first_keys)
       /\ finality_call' =
            [finality_call EXCEPT
               ![1] = Returned([NewCall("cleanup_cache", NoneId)
                                  EXCEPT !.max_entries = max_entries,
                                         !.before = finality_tracker.finalized],
                               IdleCall.res)]
  /\ UNCHANGED <<finality_frame, chain_provider>>

\* the task calls is_finalized on one of MaxCacheSize hashes, none of them tracked;
\* F_BlockNumber, F_Receipt, F_Lock and F_FinalizedWrite are the steps of the call
CC_IsFinalized ==
  /\ CallerIdle(1)
  /\ \E tx_hash \in 1..MaxCacheSize :
       finality_call' = [finality_call EXCEPT
                           ![1] = is_finalized(finality_tracker, chain_provider[1], tx_hash)]
  /\ UNCHANGED <<finality_tracker, finality_frame, chain_provider>>

NextCache ==
  CC_CleanupCache \/ CC_IsFinalized \/ F_BlockNumber \/ F_Receipt \/ F_Lock
    \/ F_FinalizedWrite

SpecCache == InitCache /\ [][NextCache]_vars

(***************************************************************************)
(* Specification SpecCallers: tasks that share one ChainProvider (the      *)
(* listener, the finality tracker and the sender hold the same Arc) and    *)
(* call get_block_number and get_logs at the same time.  A call holds no   *)
(* lock: the load of http(), the answer to the request, and the load and   *)
(* the store of failover() of several callers interleave.                  *)
(***************************************************************************)
Callers == {1, 2}

\* a caller inside a call: the iterations left, the endpoint its request in flight
\* was sent to, the endpoints it asked, the index its failover() loaded, and the
\* result of the call
IdleCaller ==
  [pc |-> "idle", op |-> "none", left |-> 0, endpoint |-> 0, tried |-> {}, current |-> 0,
   res |-> "none"]

InitCallers ==
  /\ \E n \in [ListenerChains -> 1..MaxEndpoints] : ListenersNew(n)
  /\ NoSubmitters
  /\ max_retries = MaxRetries
  /\ EngineNew(EmptyMap, [c \in Chains |-> 0])
  /\ NoFinality
  /\ provider_call = [t \in Callers |-> IdleCaller]
  /\ replay = << >>
  /\ gas_call = << >>
  /\ sender_call = << >>
  /\ arrival = << >>
  /\ graph_call = << >>
  /\ tasks = << >>

callers_frame ==
  <<dependency_graph, pending_transactions, nonce_manager, tx_submissions, max_retries,
    tick, submit_count, submitters, nonce_log, returned, finality_tracker, finality_call,
    graph_call, arrival, sender_call, gas_call, replay, tasks, chain_blocks,
    chain_checkpoints, last_processed_block, event_bus, event_rx, contract_events, restarts,
    last_poll>>

\* the provider the callers share
SharedProvider == chain_provider[1]

\* get_block_number or get_logs is entered: `for _ in 0..self.http_providers.len()`
CP_Call(t) ==
  /\ provider_call[t].pc \in {"idle", "returned"}
  /\ \E op \in {"get_block_number", "get_logs"} :
       provider_call' = [provider_call EXCEPT ![t] =
                           [IdleCaller EXCEPT !.pc = "request", !.op = op,
                                              !.left = SharedProvider.n]]
  /\ UNCHANGED <<chain_provider, callers_frame>>

\* `self.http().<request>`: the request goes to the endpoint of the index loaded now
CP_Request(t) ==
  /\ provider_call[t].pc = "request"
  /\ provider_call' = [provider_call EXCEPT ![t].pc = "answer",
                                            ![t].endpoint = http(SharedProvider)]
  /\ UNCHANGED <<chain_provider, callers_frame>>

\* `.await` of the request: the endpoint answers (a block number for
\* get_block_number) or the request fails
CP_Answer(t) ==
  /\ provider_call[t].pc = "answer"
  /\ \E answer \in {RpcFailed, 1} :
       IF answer # RpcFailed
       THEN /\ provider_call' = [provider_call EXCEPT ![t].pc = "returned", ![t].res = "ok"]
            /\ chain_provider' =
                 IF provider_call[t].op = "get_block_number"
                 THEN [chain_provider EXCEPT ![1].last_block = answer]
                 ELSE chain_provider
       ELSE /\ provider_call' = [provider_call EXCEPT
                                   ![t].pc = "failover_load",
                                   ![t].tried = @ \cup {provider_call[t].endpoint}]
            /\ UNCHANGED chain_provider
  /\ UNCHANGED callers_frame

\* failover(): `let current = self.current_provider.load(Ordering::Relaxed)`
CP_FailoverLoad(t) ==
  /\ provider_call[t].pc = "failover_load"
  /\ provider_call' = [provider_call EXCEPT ![t].pc = "failover_store",
                                            ![t].current = failover_load(SharedProvider)]
  /\ UNCHANGED <<chain_provider, callers_frame>>

\* failover(): `self.current_provider.store(next, ...)` with next computed from the
\* index loaded; then the next iteration, or the error after the last one
CP_FailoverStore(t) ==
  /\ provider_call[t].pc = "failover_store"
  /\ chain_provider' =
       [chain_provider EXCEPT ![1] =
          failover_store(SharedProvider, provider_call[t].current)]
  /\ provider_call' = [provider_call EXCEPT
                         ![t].left = @ - 1,
                         ![t].pc = IF provider_call[t].left = 1 THEN "returned" ELSE "request",
                         ![t].res = IF provider_call[t].left = 1 THEN "ChainConnection" ELSE @]
  /\ UNCHANGED callers_frame

NextCallers ==
  \/ \E t \in Callers : CP_Call(t)
  \/ \E t \in Callers : CP_Request(t)
  \/ \E t \in Callers : CP_Answer(t)
  \/ \E t \in Callers : CP_FailoverLoad(t)
  \/ \E t \in Callers : CP_FailoverStore(t)

SpecCallers == InitCallers /\ [][NextCallers]_vars

(***************************************************************************)
(* Properties of the coordination engine (specification Spec)              *)
(***************************************************************************)
TxState(t) == dependency_graph.transactions[t].state
Tracked == DOMAIN dependency_graph.transactions

PartiallySubmitted(g, grp) ==
  \E a, b \in get_swap_group(g, grp) : a.state = "Submitted" /\ b.state = "Ready"
\* C1: no process_pending tick ends with one member of a swap group Submitted and
\* another left Ready, and a group that was ready when the tick began has all its
\* members Submitted at the end of the tick once one of them is.
SwapGroupAtomic ==
  [][(tick.phase = "run" /\ tick'.phase = "idle") =>
       /\ \A grp \in DOMAIN dependency_graph'.swap_groups :
            ~PartiallySubmitted(dependency_graph', grp)
       /\ \A grp \in tick.groups_ready :
            (\E tx \in get_swap_group(dependency_graph', grp) : tx.state = "Submitted")
              => \A tx \in get_swap_group(dependency_graph', grp) : tx.state = "Submitted"]_vars

\* C2: submit_resolve succeeds at most once for every transaction id.
SubmitAtMostOnce == \A t \in TxIds : submit_count[t] <= 1

Rank(st) ==
  CASE st = "Buffered" -> 1
    [] st = "DependencyPending" -> 2
    [] st = "Ready" -> 3
    [] st = "Submitted" -> 4
    [] st = "Finalized" -> 5
    [] OTHER -> 0
\* C3: no step moves a tracked transaction to a state strictly earlier in the order
\* Buffered < DependencyPending < Ready < Submitted < Finalized.
NoBackwardMove ==
  [][\A t \in Tracked \cap DOMAIN dependency_graph'.transactions :
       (Rank(TxState(t)) > 0 /\ Rank(dependency_graph'.transactions[t].state) > 0)
         => Rank(dependency_graph'.transactions[t].state) >= Rank(TxState(t))]_vars

\* C4: a tracked transaction in Finalized, Failed or Expired keeps its state.
TerminalAbsorbing ==
  [][\A t \in Tracked \cap DOMAIN dependency_graph'.transactions :
       TxState(t) \in Terminal => dependency_graph'.transactions[t].state = TxState(t)]_vars

\* C9: after a send rejected with "nonce too low" the submission has failed with a
\* Nonce error, the transaction is still Ready for the next tick, and the rejected
\* nonce lies below the next nonce to allocate.
NonceTooLowRetried ==
  (tick.last.op = "submit" /\ tick.last.cause = "nonce_too_low") =>
     /\ tick.last.err = "Nonce"
     /\ tick.last.tx_id \in Tracked
     /\ TxState(tick.last.tx_id) = "Ready"
     /\ nonce_manager[dependency_graph.transactions[tick.last.tx_id].target_chain].current
          > tick.last.nonce

\* C35: when submit_resolve has returned, the nonce it allocated is accounted for:
\* after a success it is in the chain's pending map; after a failure it was released
\* (the next get_nonce returns it again) or a sync moved the chain's confirmed
\* nonce to it or past it, or it is pending because the send itself went through.
NonceAccountedFor ==
  (tick.last.op = "submit" /\ tick.last.cause \notin {"get_provider", "get_nonce"}) =>
     LET st == nonce_manager[dependency_graph.transactions[tick.last.tx_id].target_chain]
         n == tick.last.nonce
     IN IF tick.last.err = "none"
        THEN n \in DOMAIN st.pending
        ELSE \/ st.current <= n
             \/ st.confirmed >= n
             \/ n \in DOMAIN st.pending

\* C36: when the node accepted the raw transaction of a submit_resolve call (the
\* send succeeded, whether or not the row of the submission was then written), the
\* transaction is Submitted in the graph after the match on the call's result.
AcceptedSendBecomesSubmitted ==
  (tick.last.op = "submit" /\ tick.last.cause \in {"ok", "record_submission"}) =>
     /\ tick.last.tx_id \in Tracked
     /\ TxState(tick.last.tx_id) = "Submitted"

\* the step in which submit_resolve returned for the transaction tick'.last.tx_id
SubmitStep == tick.phase = "run" /\ tick'.phase = "run" /\ tick'.last.op = "submit"
              /\ tick'.ready # tick.ready
\* the match on submit_resolve's result, as the state of the transaction
OutcomeContract ==
  SubmitStep =>
    LET t == tick'.last.tx_id
        after == dependency_graph'.transactions[t].state
    IN /\ TxState(t) = "Ready"
       /\ tick'.last.err = "none" => after = "Submitted"
       /\ (tick'.last.err # "none" /\ is_retryable(tick'.last.err)) => after = "Ready"
       /\ (tick'.last.err # "none" /\ ~is_retryable(tick'.last.err)) => after = "Failed"
TickEndStep == tick.phase = "run" /\ tick'.phase = "idle"

\* C11, as stated: a transaction handed to submit_resolve is Ready; afterwards it is
\* Submitted when the call succeeded, still Ready when it failed with a retryable
\* error, and Failed when it failed with any other error; and a tick that directly
\* follows one in which a transaction failed with a retryable error hands it to
\* submit_resolve again.
RetriedOnNextTick ==
  [][OutcomeContract /\ (TickEndStep => tick.due = {})]_vars

\* C11, amended: the same outcomes; the tick that directly follows a retryable
\* failure hands the transaction to submit_resolve again unless the transaction
\* belongs to a swap group that is not ready (some member is not Ready).
RetriedOnNextTickUnlessGated ==
  [][OutcomeContract
     /\ (TickEndStep =>
           \A t \in tick.due :
             t \in Tracked /\ Gated(dependency_graph, dependency_graph.transactions[t]))]_vars

\* a transaction that failed with a retryable error in one tick was handed to
\* submit_resolve again in the next and is now Submitted
RetriedAndSubmitted ==
  /\ tick.phase = "run" /\ tick.last.op = "submit" /\ tick.last.again
  /\ tick.last.err = "none"
  /\ TxState(tick.last.tx_id) = "Submitted"

\* tx_id -> state of the non-terminal transactions of a graph
NonTerminalStates(g) ==
  [t \in {u \in DOMAIN g.transactions : g.transactions[u].state \notin Terminal} |->
     g.transactions[t].state]

\* C18: between two branches of the run loop, the graph that
\* load_pending_transactions would build from the rows of pending_transactions
\* holds exactly the non-terminal transactions of the in-memory graph, each in the
\* state it has in memory.
RebuildEqualsGraph ==
  tick.phase = "idle" =>
    NonTerminalStates(AddAll(NewGraph, get_pending_transactions(pending_transactions)))
      = NonTerminalStates(dependency_graph)

\* every id recorded in swap_groups[grp] is tracked and Ready, and there is one
AllMembersReady(g, grp) ==
  /\ grp \in DOMAIN g.swap_groups
  /\ g.swap_groups[grp] # {}
  /\ \A m \in g.swap_groups[grp] :
       m \in DOMAIN g.transactions /\ g.transactions[m].state = "Ready"
SkipStep == tick.phase = "run" /\ tick'.phase = "run" /\ tick'.last.op = "skip"
            /\ tick'.ready # tick.ready

\* C21: a transaction of a swap group is handed to submit_resolve only when, at
\* that moment, the group's membership set is non-empty and every member is Ready;
\* a Ready transaction without a swap group is never skipped.
SubmitOnlyWhenGroupReady ==
  [][/\ SubmitStep =>
          LET grp == dependency_graph.transactions[tick'.last.tx_id].swap_group_id
          IN grp # NoneId => AllMembersReady(dependency_graph, grp)
     /\ SkipStep =>
          dependency_graph.transactions[tick'.last.tx_id].swap_group_id # NoneId]_vars

DiagramEdge(old, new) ==
  /\ new = "Submitted" => old = "Ready"
  /\ new = "Finalized" => old = "Submitted"
  /\ new = "Ready" => old \in {"Buffered", "DependencyPending"}
\* C23: every state change of a tracked transaction follows an edge of the state
\* diagram: it enters Submitted only from Ready, Finalized only from Submitted and
\* Ready only from Buffered or DependencyPending.
StateChangesFollowDiagram ==
  [][\A t \in Tracked \cap DOMAIN dependency_graph'.transactions :
       dependency_graph'.transactions[t].state # TxState(t)
         => DiagramEdge(TxState(t), dependency_graph'.transactions[t].state)]_vars

(***************************************************************************)
(* Properties of the gas price (specification SpecFees)                    *)
(***************************************************************************)
\* C31: for the Eip1559 and Optimism strategies get_gas_price returns
\* max_fee = min(2 * base_fee + 2 gwei, cap) and priority_fee = min(2 gwei, cap)
\* with cap = max_gas_price_gwei * 10^9, so both components are at most the cap.
Eip1559FeesClamped ==
  (gas_call.gas_price_strategy \in {"Eip1559", "Optimism"} /\ gas_call.out.ok) =>
    LET cap == gas_call.max_gas_price_gwei * Gwei
        fees == gas_call.out.val
    IN /\ fees.max_fee_per_gas = Min(2 * gas_call.block.base_fee + 2 * Gwei, cap)
       /\ fees.max_priority_fee_per_gas = Min(2 * Gwei, cap)
       /\ fees.max_fee_per_gas <= cap
       /\ fees.max_priority_fee_per_gas <= cap

(***************************************************************************)
(* Properties of the finalized cache (specification SpecCache)             *)
(***************************************************************************)
\* C34: after cleanup_cache(max_entries) the cache of finalized hashes holds at
\* most max_entries entries, and a cache that held at most max_entries entries is
\* unchanged.
CacheBoundedAfterCleanup ==
  \A t \in DOMAIN finality_call :
    finality_call[t].op = "cleanup_cache" =>
      /\ Cardinality(DOMAIN finality_tracker.finalized) <= finality_call[t].max_entries
      /\ Cardinality(DOMAIN finality_call[t].before) <= finality_call[t].max_entries
           => finality_tracker.finalized = finality_call[t].before

(***************************************************************************)
(* Properties of concurrent calls on a provider (specification SpecCallers) *)
(***************************************************************************)
\* C39: a get_block_number or get_logs call that ran at the same time as other calls
\* on the provider fails with ChainConnection only after it asked every one of the
\* provider's endpoints and each of them failed.
FailsOnlyAfterEveryEndpoint ==
  \A t \in Callers :
    (provider_call[t].pc = "returned" /\ provider_call[t].res = "ChainConnection") =>
       provider_call[t].tried = 0..(SharedProvider.n - 1)

(***************************************************************************)
(* Properties of the arrival order (specification SpecOrder)               *)
(***************************************************************************)
\* C26: for two events about the same transaction from different chains, the
\* graph after handling both is the same whichever of them is handled first.
ArrivalOrderInsensitive ==
  arrival.phase = "both" => dependency_graph = arrival.swapped

(***************************************************************************)
(* Properties of the dependency graph (specification SpecGraph)            *)
(***************************************************************************)
\* C22: is_swap_group_ready(grp) is true exactly when swap_groups[grp] is non-empty
\* and every id recorded in it is a tracked transaction in state Ready.
GroupReadyIffAllMembersReady ==
  \A grp \in GroupIds :
    is_swap_group_ready(dependency_graph, grp) <=> AllMembersReady(dependency_graph, grp)

Waiters(g, d) == IF d \in DOMAIN g.dependents THEN g.dependents[d] ELSE {}
\* C24: mark_finalized(d) sets to Ready exactly the transactions recorded in
\* dependents[d] that were DependencyPending; every other transaction except d
\* keeps the state it had, and no transaction is added or removed.
MarkFinalizedNotifiesPendingOnly ==
  graph_call.op = "mark_finalized" =>
    /\ DOMAIN dependency_graph.transactions = DOMAIN graph_call.before
    /\ \A t \in DOMAIN graph_call.before \ {graph_call.tx_id} :
         dependency_graph.transactions[t].state =
           IF t \in Waiters(dependency_graph, graph_call.tx_id)
              /\ graph_call.before[t] = "DependencyPending"
           THEN "Ready"
           ELSE graph_call.before[t]
\* a waiter that was DependencyPending is Ready after mark_finalized of the
\* transaction it waits on
MarkFinalizedNotifiesWitness ==
  /\ graph_call.op = "mark_finalized"
  /\ \E t \in DOMAIN graph_call.before \ {graph_call.tx_id} :
       /\ t \in Waiters(dependency_graph, graph_call.tx_id)
       /\ graph_call.before[t] = "DependencyPending"
       /\ dependency_graph.transactions[t].state = "Ready"
       /\ graph_call.tx_id \in DOMAIN graph_call.before
       /\ dependency_graph.transactions[graph_call.tx_id].state = "Finalized"

\* the transactions cleanup is to remove: terminal ones and those older than
\* max_age_secs; a created_at later than the clock is an age below zero
ToRemove(g, max_age_secs, now) ==
  {t \in DOMAIN g.transactions :
     \/ g.transactions[t].state \in Terminal
     \/ /\ g.transactions[t].created_at <= now
        /\ now - g.transactions[t].created_at > max_age_secs}
\* C33: cleanup removes from the transaction map exactly the transactions that are
\* terminal or older than max_age_secs and leaves the others as they are, also when
\* a created_at is later than the clock.
CleanupRemovesExactly ==
  [][graph_call'.op \in {"cleanup", "cleanup_panicked"} =>
       dependency_graph'.transactions =
         Drop(dependency_graph.transactions,
              ToRemove(dependency_graph, 86400, graph_call'.now))]_vars

\* C25: add_transaction with an id that is already tracked changes only the state
\* of that transaction: its other fields and the dependents and swap_groups
\* indexes are as before the call.
AddExistingChangesOnlyState ==
  [][(graph_call'.op = "add_transaction"
        /\ graph_call'.tx_id \in DOMAIN dependency_graph.transactions) =>
       LET old == dependency_graph.transactions[graph_call'.tx_id]
           new == dependency_graph'.transactions[graph_call'.tx_id]
       IN /\ [new EXCEPT !.state = old.state] = old
          /\ dependency_graph'.dependents = dependency_graph.dependents
          /\ dependency_graph'.swap_groups = dependency_graph.swap_groups]_vars

(***************************************************************************)
(* Properties of send_with_retry and speed_up (specification SpecRetry)    *)
(***************************************************************************)
\* the error an attempt that was answered `answer` leaves in last_error; no attempt
\* leaves the default of unwrap_or
LastError(answer) ==
  CASE answer = "sign_err" -> "Wallet"
    [] answer = "timeout" -> "Timeout"
    [] OTHER -> "Transaction"

\* the last call that returned went through the loop of send_with_retry until
\* `attempts < max_attempts` failed
AttemptsUsedUp == sender_call.cause \in {"exhausted", "panicked"}

\* C28: send_with_retry makes at most max_retries attempts; when they are all used
\* up it has released the nonce (the nonce is not pending, and current is back at
\* the nonce if it was the top) and returns the error of the last attempt.
RetryBoundedAndReleased ==
  /\ \A p \in Submitters : submitters[p].attempts <= max_retries
  /\ sender_call.sends <= max_retries
  /\ AttemptsUsedUp =>
       /\ sender_call.sends = max_retries
       /\ sender_call.res = Err(LastError(sender_call.answer))
       /\ sender_call.nonce \notin DOMAIN sender_call.after.pending
       /\ sender_call.after.current = IF sender_call.nonce = sender_call.before.current - 1
                                      THEN sender_call.nonce
                                      ELSE sender_call.before.current

\* C29: when an attempt is rejected with "replacement transaction underpriced",
\* the next attempt sends the same transaction (nonce, to, data, gas limit) with
\* every gas price component 25% above that of the rejected attempt.
UnderpricedRaisesGasPrice ==
  \A p \in Submitters :
    LET me == submitters[p]
    IN (me.pc = "send_raw_transaction" /\ me.answer = "underpriced") =>
         me.tx = rebuild_tx_with_gas(me.sent, speed_up_gas_price(me.sent.gas_price, 125))

\* C30: the replacement speed_up sends has the nonce, recipient, calldata and gas
\* limit of the prior transaction and every gas price component at 125% of the
\* prior transaction's (component * 125 / 100), whatever gas price the node reports.
SpeedUpRaisesPriorPrice ==
  \A p \in Submitters :
    LET me == submitters[p]
    IN (me.op = "speed_up" /\ me.pc = "send_raw_transaction") =>
         me.tx = rebuild_tx_with_gas(me.original_tx,
                                     speed_up_gas_price(me.original_tx.gas_price, 125))

(***************************************************************************)
(* Properties of the sender and the nonce manager (specification           *)
(* SpecSender)                                                             *)
(***************************************************************************)
\* the step in which task p's get_nonce returns
AllocStep(p) == submitters[p].pc = "idle" /\ submitters'[p].op = "submit_resolve"

\* C6, as stated: per chain, a nonce returned by get_nonce is larger than every nonce
\* issued before, except that after a release_nonce(k) of the nonce allocated last
\* the next get_nonce returns exactly k.
NonceStrictlyIncreasingUntilRelease ==
  [][\A p \in Submitters :
       AllocStep(p) =>
         LET n == submitters'[p].nonce
             log == nonce_log[submitters'[p].chain]
         IN IF log.expect # {}
            THEN n \in log.expect
            ELSE \A m \in log.issued : n > m]_vars

\* C6, amended: per chain, a nonce returned by get_nonce is either larger than every
\* nonce issued before, or one that release_nonce was called for while it was the top
\* (current - 1) and that was not issued again since; and after a release_nonce(k) of
\* the nonce allocated last the next get_nonce returns exactly k, provided that
\* neither a sync nor a release_nonce of another nonce has run on the chain since k
\* was allocated.
NonceReissuedOnlyAfterTopRelease ==
  [][\A p \in Submitters :
       AllocStep(p) =>
         LET n == submitters'[p].nonce
             log == nonce_log[submitters'[p].chain]
         IN /\ IF n \in log.issued
               THEN n \in log.released
               ELSE \A m \in log.issued : n > m
            /\ (log.expect # {} /\ log.clean) => n \in log.expect]_vars

\* C6 witness: while both tasks are inside submit_resolve, the nonce allocated last
\* is the one that was allocated and released just before it, issued again
NonceReissuedWitness ==
  /\ \E c \in Chains :
       /\ nonce_log[c].kept # {}
       /\ nonce_log[c].kept = nonce_log[c].last_alloc
       /\ nonce_log[c].kept \subseteq nonce_log[c].reissued
  /\ \A p \in Submitters : submitters[p].op = "submit_resolve"

\* C37: a nonce that was sent and recorded in the pending map (nonce_log.sent) and is
\* not confirmed (it lies above the chain's confirmed nonce) is never returned by
\* get_nonce again.
PendingNonceNeverReissued ==
  [][\A p \in Submitters :
       AllocStep(p) =>
         LET c == submitters'[p].chain
             n == submitters'[p].nonce
         IN ~(n \in nonce_log[c].sent /\ n > nonce_manager[c].confirmed)]_vars

\* C7: on every initialised chain confirmed < current, and every pending nonce k
\* satisfies confirmed + 1 <= k < current.
NonceInvariant ==
  \A c \in DOMAIN nonce_manager :
    LET st == nonce_manager[c]
    IN /\ st.confirmed < st.current
       /\ \A k \in DOMAIN st.pending : st.confirmed + 1 <= k /\ k < st.current

SubmissionRows(t, h) ==
  {i \in 1..Len(tx_submissions) :
     tx_submissions[i].tx_id = t /\ tx_submissions[i].ethereum_tx_hash = FormatHash(h)}
\* C8: for every (tx_id, hash) that submit_resolve has returned, tx_submissions holds
\* exactly one row with that tx_id and that hash.
ExactlyOneSubmissionRow ==
  \A r \in returned : Cardinality(SubmissionRows(r.tx_id, r.hash)) = 1

====
